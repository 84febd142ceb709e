---- MODULE MCMesh ----
(***************************************************************************)
(* Service a contacts b and c, b contacts c.                               *)
(***************************************************************************)
EXTENDS Mesh, TLC

CONSTANTS a, b, c, external

To(path, url) == [path |-> path, url |-> url]

MCUrls == {"/", "/slow", "/missing", "/external"}

\* Through a router or straight; to a URL that does not exist; to an external container.
MCEndpoints ==
  a :> ("/"         :> <<To(<<b>>, "/"), To(<<"r1", c>>, "/")>>
     @@ "/slow"     :> <<To(<<c>>, "/"), To(<<c>>, "/missing"), To(<<c>>, "/")>>
     @@ "/external" :> <<To(<<c>>, "/"), To(<<external>>, "/")>>)
  @@ b :> ("/" :> <<To(<<c>>, "/")>>)
  @@ c :> ("/" :> <<>>)
====
