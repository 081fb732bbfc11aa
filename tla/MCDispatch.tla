------------------------------ MODULE MCDispatch ------------------------------
EXTENDS Dispatch

a == Static("a")   b == Static("b")   x == Param("x")
p == Wildcard("p") q == Wildcard("q")

Route_(m, pattern, guards) == [method |-> m, pattern |-> pattern, guards |-> guards]

\* Shapes that overlap: static beside parameter beside wildcard, at both depths.
MCRoutes ==
  {Route_("GET", t, {}) : t \in {<<a, b>>, <<a, x>>, <<x, b>>, <<p>>, <<a, p>>, <<x, p>>, <<a, q>>}}
  \cup {Route_("GET", t, {"g"}) : t \in {<<a, b>>, <<a, p>>}}
  \cup {Route_("POST", t, {}) : t \in {<<x, b>>, <<a, p>>, <<x, p>>}}
  \cup {Route_("OPTIONS", <<a, p>>, {}), Route_("HEAD", <<a, x>>, {})}

Plain(m, segs, passes) == [method |-> m, segs |-> segs, spelling |-> "plain", passes |-> passes]

\* DELETE is never registered, "s" holds a separator and "%" does not decode.
MCRequests ==
  {Plain(m, s, {}) : m \in {"GET", "POST", "HEAD", "OPTIONS"},
                     s \in {<<"a">>, <<"a", "b">>, <<"b", "b">>, <<"a", "s">>}}
  \cup {Plain(m, <<"a", "b">>, {"g"}) : m \in Method}
  \cup {Plain("GET", s, {}) : s \in {<<>>, <<"a", "b", "b">>, <<"a", "%">>}}
  \cup {Plain("DELETE", <<"a", "b">>, {}),
        [Plain("GET", <<"a", "b">>, {}) EXCEPT !.spelling = "alias"],
        [Plain("OPTIONS", <<"*">>, {}) EXCEPT !.spelling = "asterisk"]}
=============================================================================
