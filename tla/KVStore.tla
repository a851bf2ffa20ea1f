------------------------------- MODULE KVStore -------------------------------
(***************************************************************************)
(* What the public interface of lsm::DB promises, with no memtable, log or *)
(* table in sight.  The store is the sequence of the writes (put or        *)
(* remove) it accepted; a write is known by its sequence number, its index *)
(* in that sequence, and a remove is a write like any other.  A get may    *)
(* overlap with writes and with other gets: it returns the newest write of *)
(* its key among the first n writes, for some n that lies between the      *)
(* number of writes accepted when it was called and the number accepted    *)
(* when it returns.  In particular it never misses a write whose put       *)
(* returned before the get was called.                                     *)
(***************************************************************************)
EXTENDS Naturals, Sequences

CONSTANTS Keys,      (* the keys clients use                               *)
          Clients    (* the threads that call get                          *)

VARIABLES log,       (* the key of every accepted write, in order          *)
          pending,   (* the clients that are inside a get                  *)
          asked,     (* the key of each client's latest get                *)
          low,       (* how many writes were accepted when it was called   *)
          answer     (* the write it returned, 0 when the key was not found*)

vars == <<log, pending, asked, low, answer>>

Init ==
  /\ log = <<>>
  /\ pending = {}
  /\ asked \in [Clients -> Keys]
  /\ low = [c \in Clients |-> 0]
  /\ answer = [c \in Clients |-> 0]

(* w is the newest write of key k among the first n; 0 stands for none.    *)
IsNewest(w, k, n) ==
  /\ w = 0 \/ (w \in 1..n /\ log[w] = k)
  /\ \A x \in 1..n : log[x] = k => x <= w

Put(k) ==
  /\ log' = Append(log, k)
  /\ UNCHANGED <<pending, asked, low, answer>>

Call(c, k) ==
  /\ c \notin pending
  /\ pending' = pending \union {c}
  /\ asked' = [asked EXCEPT ![c] = k]
  /\ low' = [low EXCEPT ![c] = Len(log)]
  /\ UNCHANGED <<log, answer>>

Return(c) ==
  /\ c \in pending
  /\ pending' = pending \ {c}
  /\ \E n \in low[c]..Len(log), w \in 0..Len(log) :
       /\ IsNewest(w, asked[c], n)
       /\ answer' = [answer EXCEPT ![c] = w]
  /\ UNCHANGED <<log, asked, low>>

Next ==
  \/ \E k \in Keys : Put(k)
  \/ \E c \in Clients, k \in Keys : Call(c, k)
  \/ \E c \in Clients : Return(c)

Spec == Init /\ [][Next]_vars
=============================================================================
