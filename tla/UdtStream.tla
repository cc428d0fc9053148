----------------------------- MODULE UdtStream -----------------------------
(***************************************************************************)
(* The UDT library as the stream programs see it: sockets, handshake and    *)
(* losses as in UdtDgram, but the buffers hold bytes, and send and recv     *)
(* take and return as many as they can. Element <<c, n>> of Msgs stands for *)
(* the n-th byte client c sends. Bytes may be sent again here, so the       *)
(* histories accepted and taken leave out what passed before.               *)
(***************************************************************************)
EXTENDS UdtDgram, SequencesExt

CONSTANT RecvMax   \* bytes one recv returns at most (sizeof recv_buf)

ASSUME RecvAssumption == RecvMax \in Nat \ {0}

\* The history h after the bytes of data passed: it goes on with the first byte of data
\* that it does not hold yet.
Recorded(h, data) ==
  LET seen == {i \in 1 .. Len(data) : \A k \in 1 .. i : data[k] \in ToSet(h)}
  IN h \o SubSeq(data, Cardinality(seen) + 1, Len(data))

\* send returns k: all of data, or as much as there is room for.
SendTakes(s, data, k) ==
  /\ status[s] = "up"
  /\ k \in 1 .. Len(data)
  /\ k + Len(sndBuf[s]) <= SndCap
  /\ k = Len(data) \/ k + Len(sndBuf[s]) = SndCap
  /\ sndBuf' = [sndBuf EXCEPT ![s] = @ \o SubSeq(data, 1, k)]
  /\ accepted' = [accepted EXCEPT ![s] = Recorded(@, SubSeq(data, 1, k))]
  /\ UNCHANGED <<status, rcvBuf, backlog, listener, taken>>

\* recv returns k bytes: all that arrived, or as many as its buffer holds.
RecvReturns(s, k) ==
  /\ status[s] \in {"up", "broken"}
  /\ k \in 1 .. Len(rcvBuf[s])
  /\ k <= RecvMax
  /\ k = Len(rcvBuf[s]) \/ k = RecvMax
  /\ rcvBuf' = [rcvBuf EXCEPT ![s] = SubSeq(@, k + 1, Len(@))]
  /\ taken' = [taken EXCEPT ![s] = Recorded(@, SubSeq(rcvBuf[s], 1, k))]
  /\ UNCHANGED <<status, sndBuf, backlog, listener, accepted>>
=============================================================================
