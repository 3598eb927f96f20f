----------------------------- MODULE MCConverter -----------------------------
(* Five types that nest each kind in the others, with a few values each.   *)
EXTENDS Converter

Long == [kind |-> "INT_32"]
Byte == [kind |-> "INT_8"]
Array(n, t) == [kind |-> "ARRAY", dimension |-> n, content |-> t]
Sequence(t) == [kind |-> "SEQUENCE", content |-> t]
Map(k, v) == [kind |-> "MAP", first |-> k, second |-> v]
Struct(ms) == [kind |-> "STRUCTURE", members |-> ms]
Union(ms) == [kind |-> "UNION", members |-> ms]
Member(n, t) == [name |-> n, type |-> t]

Cases == Union(<<Member("x", Long), Member("y", Sequence(Byte))>>)
Inner == Struct(<<Member("p", Byte), Member("q", Sequence(Long))>>)

\* long m[2][2], byte b; long g[2][3]
Grid == Struct(<<Member("m", Array(2, Array(2, Long))), Member("b", Byte),
                 Member("g", Array(2, Array(3, Byte)))>>)
\* sequence<Inner>, Inner, Inner[2]
Nest == Struct(<<Member("s", Sequence(Inner)), Member("i", Inner),
                 Member("a", Array(2, Inner))>>)
\* map<long, sequence<long>>
Dict == Struct(<<Member("d", Map(Long, Sequence(Long))), Member("l", Long)>>)
\* a union, and two of them in an array
Both == Struct(<<Member("u", Cases), Member("w", Array(2, Cases))>>)

X(n) == [case |-> "x", value |-> n]
Y(s) == [case |-> "y", value |-> s]
In(p, q) == [p |-> p, q |-> q]

MCValues ==
  [t \in {Grid, Nest, Dict, Both, Cases} |->
     CASE t = Grid ->
            {[m |-> <<<<a, b>>, <<c, 4>>>>, b |-> d,
              g |-> <<<<1, 2, a>>, <<b, 5, 6>>>>] :
               a \in {1, 7}, b \in {2, 8}, c \in {3}, d \in {-1, 5}}
       [] t = Nest ->
            {[s |-> s, i |-> i, a |-> <<i, In(3, q)>>] :
               s \in {<<>>, <<In(1, <<1, 2>>)>>,
                      <<In(-2, <<>>), In(2, <<3>>)>>},
               i \in {In(0, <<4>>), In(-128, <<>>)},
               q \in {<<>>, <<5>>}}
       [] t = Dict ->
            {[d |-> d, l |-> l] :
               d \in {<<>>, <<<<1, <<1>>>>>>, <<<<1, <<>>>>, <<2, <<2, 3>>>>>>,
                      <<<<2, <<4>>>>>>},
               l \in {0, 1}}
       [] t = Both ->
            {[u |-> u, w |-> <<w, X(2)>>] :
               u \in {X(1), Y(<<>>), Y(<<-1, 1>>)}, w \in {X(3), Y(<<2>>)}}
       [] t = Cases -> {X(1), X(2), Y(<<>>), Y(<<-1>>), Y(<<1, 2>>)}]

MCRootTypes == DOMAIN MCValues

\* All parts of parts, four levels down.
WithParts(S) == S \union UNION {Parts(t) : t \in S}
MCAllTypes == WithParts(WithParts(WithParts(WithParts(MCRootTypes))))

RECURSIVE depth(_)
depth(t) ==
  IF Parts(t) = {} THEN 0 ELSE 1 + Max({depth(p) : p \in Parts(t)})
MCDepth == [t \in MCAllTypes |-> depth(t)]

-----------------------------------------------------------------------------
(* Each function is what it does. TLC follows an operator constant to what *)
(* it stands for when it looks for the expressions whose coverage it       *)
(* counts, for ever here, were it not for the LETs.                        *)
MCget_array_specs(t) == LET result == get_array_specs_body(t) IN result
MCcreate_data(t) == LET result == create_data_body(t) IN result
MCDynamicData(t) == LET result == DynamicData_body(t) IN result
MCset_value(t, from, to) == LET result == set_value_body(t, from, to) IN result
MCset_array_data(t, from, to, indexes) ==
  LET result == set_array_data_body(t, from, to, indexes)
  IN  result
MCget_value(t, from, to) == LET result == get_value_body(t, from, to) IN result
MCget_array_data(t, from, indexes) ==
  LET result == get_array_data_body(t, from, indexes)
  IN  result
MCIsValue(t, v) == LET result == IsValue_body(t, v) IN result
MCIsData(t, d) == LET result == IsData_body(t, d) IN result
MCHolds(t, d, v) == LET result == Holds_body(t, d, v) IN result
MCSize(t) == LET result == Size_body(t) IN result
MCHoldsArray(t, d, v, place) ==
  LET result == HoldsArray_body(t, d, v, place)
  IN  result
MCShows(t, out, v) == LET result == Shows_body(t, out, v) IN result
=============================================================================
