---------------------------- MODULE MCAiRewriter ----------------------------
EXTENDS AiRewriter, TLC

Seg(reading, values) == [reading |-> reading, free |-> TRUE,
                         candidates |-> [n \in DOMAIN values |-> Plain(values[n])]]

Specs == (<<"n">> :> <<"1">>)

(* Two words of which each may change the other's context. *)
Nose   == Seg(<<"h">>, <<<<"a">>, <<"b">>>>)
Flower == Seg(<<"w">>, <<<<"b">>, <<"b">>, <<"d">>>>)
Fixed  == [Seg(<<"w">>, <<<<"d">>, <<"b">>>>) EXCEPT !.free = FALSE]
(* One phrase whose candidates share what stands around them. *)
Phrase == Seg(<<"p">>, <<<<"a", "b", "c">>, <<"a", "d", "c">>, <<"a", "c">>>>)
(* A number the table knows, alone and in front of a counter. *)
Number == Seg(<<"n", "w">>, <<<<"m">>, <<"k">>>>)
Digit  == Seg(<<"n">>, <<<<"m">>, <<"k">>>>)

MCConversions == {<<Nose, Flower>>, <<Phrase>>, <<Number>>, <<Digit, Fixed>>}
(* The last candidate of Flower; that of Fixed may not be moved. *)
MCUserHistory == {<<"d">>}
(* A first word, and one after a commit in a host that shows only what follows. *)
MCContexts == {[before |-> <<>>, history |-> <<>>, after |-> <<>>],
               [before |-> <<>>, history |-> <<"a">>, after |-> <<"q">>]}
=============================================================================
