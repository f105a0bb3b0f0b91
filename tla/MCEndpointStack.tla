--------------------------- MODULE MCEndpointStack ---------------------------
(* Every stack of up to two wrappers, some of three, and pairs to mount.   *)
EXTENDS EndpointStack

W(w, arg) == [w |-> w, arg |-> arg]
Auth == W("Protected", "-")
Valid == W("Validated", "-")
V1 == W("Versioned", "v1")
Ct == W("ContentType", "-")
Limited == W("RateLimited", "-")
NeedsAuth == W("Requires", "AuthRequired")
Exact == W("Strict", "-")
Wrappers == {Auth, Valid, V1, Ct, Limited, NeedsAuth, Exact}
Ept(wraps, path) == [wraps |-> wraps, path |-> <<path>>]

Stacks == UNION {[1..n -> Wrappers] : n \in 0..2}
  \union {<<Auth, Valid, NeedsAuth>>, <<Auth, V1, W("Versioned", "v2")>>,
          <<NeedsAuth, Valid, W("Requires", "CorsRequired")>>}
Users1(s) == Ept(s, "users")
Orders == Ept(<<NeedsAuth>>, "orders")
MCStackApis == {<<<<Users1(s)>>>> : s \in Stacks}
  \union {<<<<Users1(s)>>, <<Orders>>>> : s \in {<<>>, <<Auth>>, <<V1>>}}
  \union {<<<<Users1(s), Orders>>>> : s \in {<<>>, <<Auth>>, <<V1>>}}
MCExtras == {<<Ept(<<>>, "users")>>}
MCHandlers == {<<>>, <<"Json">>, <<"Auth", "Json">>, <<"RequestId">>}
==============================================================================
