----------------------------- MODULE PrivatePages -----------------------------
(***************************************************************************)
(* What a paged cache promises: every sequence has pages of its own.        *)
(* A page of a new sequence holds anything; an inheritor starts with copies *)
(* of some first pages of another sequence; and a write changes one entry   *)
(* of one page of one sequence.                                            *)
(***************************************************************************)
EXTENDS Sequences, Naturals

CONSTANTS Owner, Page, Cell, Value

VARIABLES open, pages

pvars == <<open, pages>>

PagesInit ==
    /\ open = {}
    /\ pages = [s \in Owner |-> <<>>]

Open(s) ==
    /\ s \notin open
    /\ open' = open \union {s}
    /\ pages' = [pages EXCEPT ![s] = pages'[s]]
    /\ pages'[s] \in Seq(Page)

Inherit(s, r) ==
    /\ s \in open
    /\ r \notin open
    /\ open' = open \union {r}
    /\ \E k \in 0 .. Len(pages[s]) :
          pages' = [pages EXCEPT ![r] = SubSeq(pages[s], 1, k)]

Put(s) ==
    /\ s \in open
    /\ UNCHANGED open
    /\ \E i \in 1 .. Len(pages[s]), c \in Cell, v \in Value :
          pages' = [pages EXCEPT ![s] = [pages[s] EXCEPT ![i] = [pages[s][i] EXCEPT ![c] = v]]]

Close(s) ==
    /\ s \in open
    /\ open' = open \ {s}
    /\ pages' = [pages EXCEPT ![s] = <<>>]

PagesNext ==
    \/ \E s \in Owner : Open(s) \/ Put(s) \/ Close(s)
    \/ \E s, r \in Owner : Inherit(s, r)

PagesSpec == PagesInit /\ [][PagesNext]_pvars
=============================================================================
