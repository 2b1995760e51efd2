---------------------------- MODULE SigningPipe -----------------------------
(***************************************************************************)
(* A signed zone transfer out (TCPNameserver::doAXFR of tcpreceiver.cc)    *)
(* and the ChunkedSigningPipe it feeds (signingpipe.cc).  The transfer     *)
(* submits the zone's records; each complete RRset goes to one of several  *)
(* worker threads over a socket pair, comes back signed, and is packed     *)
(* into chunks, one per packet.                                            *)
(*                                                                         *)
(* A record is its position in Input, the signature of the RRset that      *)
(* starts with record i is -i.  A socket holds Capacity pointers per       *)
(* direction.  A worker may die of an exception, the transfer of an error. *)
(***************************************************************************)
EXTENDS Integers, Sequences, SequencesExt, FiniteSets, FiniteSetsExt

CONSTANTS
  Workers,    \* signing-threads
  Input,      \* the RRset (name and type) of each record that is submitted
  KeyRecords, \* how many of them are DNSKEY and NSEC3PARAM records, submitted first
  MaxChunk,   \* d_maxchunkrecords
  Capacity,   \* pointers a socket buffer holds
  MaxSignerDeaths \* bound on the workers that die

ASSUME PipeAssumption ==
  /\ IsFiniteSet(Workers) /\ Len(Input) \in Nat /\ DOMAIN Input = 1 .. Len(Input)
  /\ KeyRecords \in Nat /\ MaxChunk \in Nat \ {0} /\ Capacity \in Nat \ {0}
  /\ MaxSignerDeaths \in Nat

VARIABLES
  mustSign,    \* d_mustSign: the zone is secured
  pos,         \* the next record to submit
  rrset,       \* *d_rrsetToSign
  toWorker,    \* the pointers written to each worker
  atWorker,    \* the chunk each worker signs; <<>> for none
  fromWorker,  \* the pointers each worker wrote back
  closed,      \* the workers that closed their end
  outstanding, \* d_outstanding
  chunks,      \* d_chunks
  eof,         \* d_eof
  final,       \* d_final
  shut,        \* our end is shut down for writing, or closed
  out,         \* the records sent to the client
  axfr,        \* where doAXFR is
  ret,         \* where sendRRSetToWorker returns to
  ready,       \* rwVect.first
  wantWrite    \* wantWrite

workers == <<toWorker, atWorker, fromWorker, closed>>
send == <<ready, wantWrite, ret>>
signingVars ==
  <<mustSign, pos, rrset, workers, outstanding, chunks, eof, final, shut, out, axfr, send>>

Records == 1 .. Len(Input)
Chunk == Seq(Records \cup {-i : i \in Records})

(* The type invariant. *)
SigningTypeOK ==
  /\ pos \in 1 .. Len(Input) + 1
  /\ rrset \in Chunk
  /\ \A w \in Workers : /\ toWorker[w] \in Seq(Chunk) /\ Len(toWorker[w]) <= Capacity
                        /\ fromWorker[w] \in Seq(Chunk) /\ Len(fromWorker[w]) <= Capacity
                        /\ atWorker[w] \in Chunk
  /\ closed \subseteq Workers /\ eof \subseteq Workers /\ ready \subseteq Workers
  /\ outstanding \in 0 .. Len(Input)
  /\ chunks \in Seq(Chunk) /\ chunks # <<>>
  /\ {mustSign, final, shut, wantWrite} \subseteq BOOLEAN
  /\ out \in Chunk
  /\ axfr \in {"submit", "push", "drain", "poll", "read", "write", "shut", "pop", "close", "done"}
  /\ ret \in {"push", "shut", "pop"}

(* A signed zone has keys and NSEC records, two RRsets at least. *)
SigningInit ==
  /\ mustSign \in {b \in BOOLEAN : b => \E i \in Records : Input[i] # Input[1]}
  /\ pos = 1
  /\ rrset = <<>>
  /\ toWorker = [w \in Workers |-> <<>>]
  /\ atWorker = [w \in Workers |-> <<>>]
  /\ fromWorker = [w \in Workers |-> <<>>]
  /\ closed = IF mustSign THEN {} ELSE Workers
  /\ outstanding = 0
  /\ chunks = <<<<>>>>
  /\ eof = {} /\ ready = {}
  /\ final = FALSE /\ shut = FALSE /\ wantWrite = FALSE
  /\ out = <<>>
  /\ axfr = "submit"
  /\ ret = "push"

-----------------------------------------------------------------------------
(* addSignedToChunks: fill the last chunk, and start new ones as needed. *)
AddSignedToChunks(c) ==
  LET last == chunks[Len(chunks)]
      room == MaxChunk - Len(last)
      rest == SubSeq(c, room + 1, Len(c))
      more == (Len(rest) + MaxChunk - 1) \div MaxChunk
  IN [chunks EXCEPT ![Len(chunks)] = last \o SubSeq(c, 1, Min({room, Len(c)}))]
       \o [k \in 1 .. more |->
             SubSeq(rest, (k - 1) * MaxChunk + 1, Min({k * MaxChunk, Len(rest)}))]

(***************************************************************************)
(* waitForRW: a socket that can be read is not reported as writable.       *)
(***************************************************************************)
Readable == {w \in Workers : fromWorker[w] # <<>> \/ w \in closed}
Writable_readableToo == {w \in Workers : Len(toWorker[w]) < Capacity}
Writable == {w \in Workers : Len(toWorker[w]) < Capacity} \ Readable

(* Hand the RRset to a worker; a worker that closed its end makes it fail. *)
WriteTo(w) ==
  IF w \in closed
  THEN axfr' = "close" /\ UNCHANGED <<toWorker, rrset, outstanding, wantWrite>>
  ELSE /\ toWorker' = [toWorker EXCEPT ![w] = Append(@, rrset)]
       /\ rrset' = <<>>
       /\ outstanding' = outstanding + 1
       /\ wantWrite' = FALSE

(***************************************************************************)
(* sendRRSetToWorker, for the caller r.  "poll" is its first wait, "read"  *)
(* its loop over the readable sockets, "write" the wait for a worker.      *)
(***************************************************************************)
SendRRSetToWorker(r) ==
  /\ ret' = r
  /\ IF mustSign /\ ~(final' /\ outstanding = 0)
     THEN /\ axfr' = "poll"
          /\ wantWrite' = (rrset # <<>>)
          /\ UNCHANGED <<rrset, chunks>>
     ELSE /\ axfr' = r
          /\ chunks' = IF mustSign THEN chunks ELSE AddSignedToChunks(rrset)
          /\ rrset' = IF mustSign THEN rrset ELSE <<>>
          /\ UNCHANGED wantWrite

Poll_writeOnly ==
  /\ axfr = "poll"
  /\ Writable # {}
  /\ ready' = Readable
  /\ IF wantWrite
     THEN \E w \in Writable : WriteTo(w) /\ (w \notin closed => axfr' = "read")
     ELSE axfr' = "read" /\ UNCHANGED <<toWorker, rrset, outstanding, wantWrite>>
  /\ UNCHANGED <<pos, atWorker, fromWorker, closed, chunks, eof, final, shut, out, ret>>
Poll ==
  /\ axfr = "poll"
  /\ Readable # {} \/ (wantWrite /\ Writable # {})
  /\ ready' = Readable
  /\ IF wantWrite /\ Writable # {}
     THEN \E w \in Writable : WriteTo(w) /\ (w \notin closed => axfr' = "read")
     ELSE axfr' = "read" /\ UNCHANGED <<toWorker, rrset, outstanding, wantWrite>>
  /\ UNCHANGED <<pos, atWorker, fromWorker, closed, chunks, eof, final, shut, out, ret>>

(* One read: a signed chunk, an EOF, or nothing yet. *)
Read(w) ==
  /\ axfr = "read"
  /\ w \in ready
  /\ outstanding > 0
  /\ IF w \notin eof /\ fromWorker[w] # <<>>
     THEN /\ fromWorker' = [fromWorker EXCEPT ![w] = Tail(@)]
          /\ chunks' = AddSignedToChunks(Head(fromWorker[w]))
          /\ outstanding' = outstanding - 1
          /\ UNCHANGED <<eof, ready>>
     ELSE /\ ready' = ready \ {w}
          /\ eof' = IF w \in closed THEN eof \cup {w} ELSE eof
          /\ UNCHANGED <<fromWorker, chunks, outstanding>>
  /\ UNCHANGED <<pos, rrset, toWorker, atWorker, closed, final, shut, out, axfr, ret, wantWrite>>

(* The flush goes on waiting while chunks are outstanding, for the sockets  *)
(* at their end too: d_eof holds descriptors, waitForRW asks it for numbers. *)
ReadMore_always ==
  /\ axfr = "read"
  /\ ready = {} \/ outstanding = 0
  /\ axfr' = IF wantWrite THEN "write" ELSE ret
  /\ UNCHANGED <<pos, rrset, workers, outstanding, chunks, eof, final, shut, out, send>>
ReadMore ==
  /\ axfr = "read"
  /\ ready = {} \/ outstanding = 0
  /\ IF outstanding > 0 /\ final
     THEN Readable # {} /\ ready' = Readable /\ UNCHANGED axfr
     ELSE axfr' = (IF wantWrite THEN "write" ELSE ret) /\ UNCHANGED ready
  /\ UNCHANGED <<pos, rrset, workers, outstanding, chunks, eof, final, shut, out, ret, wantWrite>>

Write ==
  /\ axfr = "write"
  /\ \E w \in Workers : /\ Len(toWorker[w]) < Capacity
                        /\ WriteTo(w)
                        /\ w \notin closed => axfr' = ret
  /\ UNCHANGED <<pos, atWorker, fromWorker, closed, chunks, eof, final, shut, out, ret, ready>>

-----------------------------------------------------------------------------
(***************************************************************************)
(* doAXFR: submit every record; when the first chunk is full, send chunks  *)
(* until an empty one; then flush with getChunk(true) until an empty one.  *)
(***************************************************************************)
Submit ==
  /\ axfr = "submit"
  /\ pos <= Len(Input)
  /\ UNCHANGED final
  /\ IF rrset # <<>> /\ Input[rrset[1]] # Input[pos]
     THEN SendRRSetToWorker("push")
     ELSE axfr' = "push" /\ UNCHANGED <<rrset, chunks, ret, wantWrite>>
  /\ UNCHANGED <<pos, workers, outstanding, eof, shut, out, ready>>

Push ==
  /\ axfr = "push"
  /\ rrset' = Append(rrset, pos)
  /\ pos' = pos + 1
  /\ axfr' = IF Len(chunks[1]) >= MaxChunk /\ pos > KeyRecords THEN "drain" ELSE "submit"
  /\ UNCHANGED <<workers, outstanding, chunks, eof, final, shut, out, send>>

(* getChunk takes the first chunk; there is always one. *)
PopChunk == chunks' = IF Len(chunks) = 1 THEN <<<<>>>> ELSE Tail(chunks)

Drain ==
  /\ axfr = "drain"
  /\ PopChunk
  /\ out' = out \o chunks[1]
  /\ axfr' = IF chunks[1] = <<>> THEN "submit" ELSE "drain"
  /\ UNCHANGED <<pos, rrset, workers, outstanding, eof, final, shut, send>>

Flush ==
  /\ axfr = "submit"
  /\ pos > Len(Input)
  /\ final' = TRUE
  /\ SendRRSetToWorker("shut")
  /\ UNCHANGED <<pos, workers, outstanding, eof, shut, out, ready>>

(* The rest of flushToSign clears the RRset; then shutdown, and once more. *)
Shut ==
  /\ axfr = "shut"
  /\ shut' = TRUE
  /\ ret' = "pop"
  /\ rrset' = <<>>
  /\ axfr' = IF mustSign /\ outstanding > 0 THEN "poll" ELSE "pop"
  /\ UNCHANGED <<pos, workers, outstanding, chunks, eof, final, out, ready, wantWrite>>

GetFinal ==
  /\ axfr = "pop"
  /\ rrset' = <<>>
  /\ PopChunk
  /\ out' = out \o chunks[1]
  /\ axfr' = IF chunks[1] = <<>> THEN "close" ELSE "pop"
  /\ UNCHANGED <<pos, workers, outstanding, eof, final, shut, send>>

(* A packet cannot be sent: the transfer ends. *)
Fail ==
  /\ axfr \in {"drain", "pop"}
  /\ chunks[1] # <<>>
  /\ axfr' = "close"
  /\ UNCHANGED <<pos, rrset, workers, outstanding, chunks, eof, final, shut, out, send>>

(* The destructor closes the sockets and joins the workers. *)
CloseSockets ==
  /\ axfr = "close"
  /\ shut' = TRUE
  /\ axfr' = "done"
  /\ UNCHANGED <<pos, rrset, workers, outstanding, chunks, eof, final, out, send>>

-----------------------------------------------------------------------------
WorkerRead(w) ==
  /\ w \notin closed
  /\ atWorker[w] = <<>>
  /\ toWorker[w] # <<>>
  /\ atWorker' = [atWorker EXCEPT ![w] = Head(toWorker[w])]
  /\ toWorker' = [toWorker EXCEPT ![w] = Tail(@)]
  /\ UNCHANGED <<pos, rrset, fromWorker, closed, outstanding, chunks, eof, final, shut, out,
                 axfr, send>>

(* addRRSigs and the answer; once our end is closed, writing fails. *)
Signed_before(c) == <<-c[1]>> \o c
Signed(c) == Append(c, -c[1])
WorkerWrite(w) ==
  /\ w \notin closed
  /\ atWorker[w] # <<>>
  /\ IF axfr = "done"
     THEN closed' = closed \cup {w} /\ UNCHANGED fromWorker
     ELSE /\ Len(fromWorker[w]) < Capacity
          /\ fromWorker' = [fromWorker EXCEPT ![w] = Append(@, Signed(atWorker[w]))]
          /\ UNCHANGED closed
  /\ atWorker' = [atWorker EXCEPT ![w] = <<>>]
  /\ UNCHANGED <<pos, rrset, toWorker, outstanding, chunks, eof, final, shut, out, axfr, send>>

WorkerEnds(w) ==
  /\ w \notin closed
  /\ atWorker[w] = <<>>
  /\ toWorker[w] = <<>> /\ shut
  /\ closed' = closed \cup {w}
  /\ UNCHANGED <<pos, rrset, toWorker, atWorker, fromWorker, outstanding, chunks, eof, final,
                 shut, out, axfr, send>>

(* An exception while signing. *)
WorkerDies(w) ==
  /\ w \notin closed
  /\ ~shut
  /\ Cardinality(closed) < MaxSignerDeaths
  /\ atWorker[w] # <<>>
  /\ closed' = closed \cup {w}
  /\ UNCHANGED <<pos, rrset, toWorker, atWorker, fromWorker, outstanding, chunks, eof, final,
                 shut, out, axfr, send>>

Transfer ==
  \/ Submit \/ Push \/ Drain \/ Flush \/ Shut \/ GetFinal \/ CloseSockets
  \/ Poll \/ ReadMore \/ Write \/ \E w \in Workers : Read(w)
Worker(w) == WorkerRead(w) \/ WorkerWrite(w) \/ WorkerEnds(w)

SigningNext ==
  /\ \/ Transfer
     \/ Fail
     \/ \E w \in Workers : Worker(w) \/ WorkerDies(w)
  /\ UNCHANGED mustSign

SigningSpec == SigningInit /\ [][SigningNext]_signingVars
(* The transfer and the workers are threads of their own. *)
FairSigningSpec ==
  /\ SigningSpec
  /\ WF_signingVars(Transfer /\ UNCHANGED mustSign)
  /\ \A w \in Workers : WF_signingVars(Worker(w) /\ UNCHANGED mustSign)

-----------------------------------------------------------------------------
Where(i, s) == {k \in DOMAIN s : s[k] = i}
Copies(i, s) == Cardinality(Where(i, s))
(* What goes through a worker, the first to come out first. *)
Held(w) ==
  fromWorker[w] \o (IF atWorker[w] = <<>> THEN <<>> ELSE <<atWorker[w]>>) \o toWorker[w]
PlacesAt(w, i) == UNION {{<<w, j, k>> : k \in Where(i, Held(w)[j])} : j \in DOMAIN Held(w)}
AtWorkers(i) == UNION {PlacesAt(w, i) : w \in Workers}
Emitted == out \o FlattenSeq(chunks)
Dead == {w \in closed : atWorker[w] # <<>> \/ toWorker[w] # <<>>}

(***************************************************************************)
(* A record that was submitted is in exactly one place until it is sent:   *)
(* waiting for its RRset to be complete, with a worker, or in a chunk.     *)
(* flushToSign loses none, although it drops what is pending when nothing  *)
(* is outstanding: once an RRset was sent, something is.                   *)
(***************************************************************************)
NothingLost ==
  axfr # "done" =>
    \A i \in 1 .. pos - 1 : Copies(i, rrset) + Cardinality(AtWorkers(i)) + Copies(i, Emitted) = 1

(***************************************************************************)
(* The client gets each RRset whole: a record is followed by the rest of   *)
(* its RRset and by its signature, whatever the order of the RRsets.       *)
(***************************************************************************)
SetsWhole ==
  mustSign => \A k \in DOMAIN Emitted :
    LET i == Emitted[k]
    IN i > 0 => /\ k < Len(Emitted)
                /\ IF i < Len(Input) /\ Input[i + 1] = Input[i]
                   THEN Emitted[k + 1] = i + 1
                   ELSE Emitted[k + 1] < 0 /\ Input[-Emitted[k + 1]] = Input[i]

(***************************************************************************)
(* When the flush ends with an empty chunk, every record has been sent:    *)
(* if a worker died with some, the flush waits for it and never ends.      *)
(***************************************************************************)
AllSent ==
  [][axfr = "pop" /\ axfr' = "close" /\ chunks[1] = <<>> =>
       \A i \in Records : Copies(i, out) = 1]_signingVars

(* The transfer ends and the threads exit, unless one died with an RRset. *)
Ends == <>(axfr = "done" /\ closed = Workers) \/ <>(axfr # "done" /\ Dead # {})
=============================================================================
