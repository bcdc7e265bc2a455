------------------------------ MODULE MCCaptures ------------------------------
(* Captures with one mask register, one GPC with one PPC, two probes, and  *)
(* TOP tables of three words.                                              *)
EXTENDS Captures

Family  == {"raw"}
Probes  == {"nvkm_devinit_post", "nvkm_mc_reset"}
InPrint == <<<<"raw", 1>>>>
Symbols == <<"nvkm_mc_reset", "nvkm_devinit_post">>

(* Lives of the driver.                                                    *)
Normal   == [bdf |-> "a", resets |-> 1, trailing |-> 0, post |-> 0, flip |-> 0,
             fault |-> "none", at |-> 0, to |-> 0]
Changing == [Normal EXCEPT !.flip = 7, !.trailing = 1, !.post = 1]
Lives == {Normal, Changing,
          [Normal EXCEPT !.resets = 2],
          [Normal EXCEPT !.fault = "failed", !.at = 7],
          [Normal EXCEPT !.fault = "gone", !.at = 9]}
         \cup {[Changing EXCEPT !.fault = f, !.at = i, !.to = 11] :
                 f \in {"missed", "dropped"}, i \in {10, 11}}

OneLife  == {[kind |-> "lives", of |-> <<l>>] : l \in Lives}
TwoLives == {[kind |-> "lives", of |-> <<l, k>>] :
               l \in {[Changing EXCEPT !.fault = "missed", !.at = 10, !.to = 11]},
               k \in {Changing}}

(* TOP words.                                                              *)
W(kind, more) == [kind |-> kind, more |-> more, inst |-> 0, reset |-> -1, type |-> "none",
                  ones |-> FALSE, bits |-> {}]
None   == W(0, FALSE)
Words == {None, W(1, TRUE), [W(1, FALSE) EXCEPT !.inst = 1],
          [W(2, TRUE) EXCEPT !.reset = 5], [W(2, FALSE) EXCEPT !.reset = 6], W(2, TRUE),
          [W(3, TRUE) EXCEPT !.type = "GR"], [W(3, FALSE) EXCEPT !.type = "GR"],
          [W(3, FALSE) EXCEPT !.type = "CE"],
          [W(3, TRUE) EXCEPT !.type = "?", !.ones = TRUE]}
PmcValue(b) == [None EXCEPT !.bits = b]

Snap(t, p) == [bdf |-> "a", marked |-> TRUE, table |-> t, pmc |-> p]
(* Every table, alone.                                                     *)
Alone == {[kind |-> "snapshots", of |-> <<Snap(<<x, y, z>>, PmcValue({5}))>>] :
            x, y, z \in Words}

First  == Snap(<<[W(3, TRUE) EXCEPT !.type = "GR"], None, [W(2, FALSE) EXCEPT !.reset = 5]>>,
               PmcValue({5}))
Second == [Snap(<<[W(2, TRUE) EXCEPT !.reset = 6], None, [W(3, FALSE) EXCEPT !.type = "GR"]>>,
                PmcValue({5})) EXCEPT !.bdf = "b"]
Together == {[kind |-> "snapshots", of |-> <<First, Second>>],
             [kind |-> "snapshots", of |-> <<[First EXCEPT !.marked = FALSE],
                                             [Second EXCEPT !.marked = FALSE]>>]}

All == OneLife \cup TwoLives \cup Alone \cup Together
==============================================================================
