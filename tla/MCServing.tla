------------------------------ MODULE MCServing ------------------------------
(***************************************************************************)
(* Instances of Serving for TLC: three requests, two statements.           *)
(***************************************************************************)
EXTENDS Serving, TLC

CONSTANTS r1, r2, r3, a, b, t1, pg

Query(q) == [sql |-> q, params |-> t1, dialect |-> pg]

(* r1, which may hang, asks for a; r2 for the same or another; r3 for b. *)
MCAsks == (r1 :> {Query(a)}) @@ (r2 :> {Query(a), Query(b)}) @@ (r3 :> {Query(b)})

=============================================================================
