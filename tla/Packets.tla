------------------------------- MODULE Packets -------------------------------
(***************************************************************************)
(* A byte stream as a sequence of packets, and prefixes of it as numbers   *)
(* of bytes: what the packet parsers of MySQLConnection and                *)
(* PgSQLConnection compute from the sizes in the headers.  A packet is a   *)
(* record with a field size.                                               *)
(***************************************************************************)
EXTENDS Integers, Sequences, FiniteSetsExt

\* The size of the first n packets, and the packets behind them.
Bytes(ps, n) ==
  LET sum[i \in 0..n] == IF i = 0 THEN 0 ELSE sum[i - 1] + ps[i].size IN sum[n]
From(ps, n) == SubSeq(ps, n + 1, Len(ps))

\* How many packets the first b bytes hold, and whether they hold no other.
Whole(ps, b) == Max({i \in 0..Len(ps) : Bytes(ps, i) <= b})
AtPacket(ps, b) == Bytes(ps, Whole(ps, b)) = b

\* Where a read of the stream ps may end that has got n bytes so far: with a
\* packet, or at one of the offsets cuts into it.
ReadTo(ps, n, cuts) ==
  {b \in UNION {{Bytes(ps, i)} \cup {Bytes(ps, i - 1) + c : c \in {d \in cuts : d < ps[i].size}} :
                  i \in DOMAIN ps} : b > n}
=============================================================================
