--------------------------- MODULE MCDynamicPubSub ---------------------------
EXTENDS DynamicPubSub

CONSTANTS ta, tb, A, B, a1, a2

Pub(t, y)    == [topic |-> t, type |-> y, publish |-> TRUE, filter |-> FALSE]
Sub(t, y, f) == [topic |-> t, type |-> y, publish |-> FALSE, filter |-> f]

TwoTopics == {ta, tb}
TwoTypes == {A, B}
TwoAddresses == {a1, a2}

\* A topic both published and subscribed, filters on none, one or two
\* topics; the type of a topic changes from file to file, and in the last
\* file the input and the output of a topic are of two types.
Lists == {<<Pub(ta, A), Sub(ta, A, FALSE)>>,
          <<Pub(ta, A), Sub(ta, A, TRUE), Sub(tb, B, FALSE)>>,
          <<Pub(tb, B), Sub(ta, A, TRUE), Sub(tb, B, TRUE)>>,
          <<Sub(tb, B, TRUE)>>,
          <<Pub(tb, A), Sub(ta, A, FALSE)>>,
          <<Pub(ta, A), Sub(ta, B, FALSE)>>}
=============================================================================
