------------------------- MODULE SlaveCommunicator --------------------------
(***************************************************************************)
(* The slave half of the communicator (slavecommunicator.cc and            *)
(* retrievalLoopThread of communicator.cc).  The communicator thread polls *)
(* the masters of zones that were NOTIFYed or are due for a check, and     *)
(* queues the outdated ones; a pool of retrieval threads takes zones off   *)
(* that queue and replaces their contents by a transfer (AXFR) in one      *)
(* database transaction.                                                   *)
(*                                                                         *)
(* A zone's contents are known by their serial.  Polls may time out and    *)
(* transfers may fail at any point.  Serials are SerialSpace wide and      *)
(* wrap.                                                                   *)
(***************************************************************************)
EXTENDS Integers, Sequences, SequencesExt, FiniteSets

CONSTANTS
  SlaveDomains,  \* slave zones
  Masters,       \* the masters of every zone, in the order of the database (a sequence)
  Threads,       \* retrieval-threads
  SerialSpace,   \* 2^32 in the code
  FirstSerial,   \* serial of every zone at the start
  SignedSerials, \* versions of a zone that carry NSEC or NSEC3 records
  StoreMayFail,  \* the database may refuse what follows a commit
  MaxUpdates     \* bound on the changes of a zone at a master

MasterSet == ToSet(Masters)
SlaveSerials == 0 .. SerialSpace - 1
NoAnswer == -1

ASSUME SlaveAssumption ==
  /\ SerialSpace \in Nat /\ SerialSpace % 2 = 0 /\ MaxUpdates < SerialSpace \div 2
  /\ FirstSerial \in SlaveSerials /\ SignedSerials \subseteq SlaveSerials
  /\ Len(Masters) > 0 /\ StoreMayFail \in BOOLEAN /\ IsFiniteSet(Threads)

VARIABLES
  mserial,     \* mserial[m][z]: serial of the zone at master m
  ourserial,   \* serial of our copy, committed
  presigned,   \* the PRESIGNED flag of the zone's metadata
  fresh,       \* last_check + refresh is in the future
  suckdomains, \* d_suckdomains
  suckSem,     \* d_suck_sem
  tocheck,     \* d_tocheck
  cycle,       \* where slaveRefresh is
  sdomains,    \* the zones slaveRefresh polls: what it knows of each
  retrieval    \* the retrieval threads

store == <<ourserial, presigned>>
queue == <<suckdomains, suckSem>>
slaveVars == <<mserial, store, fresh, queue, tocheck, cycle, sdomains, retrieval>>

(* ours = NoAnswer: the zone came from a NOTIFY, its serial is read later. *)
Check == [ours : SlaveSerials \cup {NoAnswer}, theirs : SlaveSerials \cup {NoAnswer},
          master : MasterSet, asked : BOOLEAN]
Idle == [pc |-> "wait", zone |-> CHOOSE z \in SlaveDomains : TRUE, master |-> Masters[1],
         got |-> FirstSerial, had |-> FALSE]
Retrieval == [pc : {"wait", "woken", "suck", "axfr", "setfresh", "flags"}, zone : SlaveDomains,
              master : MasterSet, got : SlaveSerials, had : BOOLEAN]

(* The type invariant. *)
SlaveTypeOK ==
  /\ mserial \in [MasterSet -> [SlaveDomains -> SlaveSerials]]
  /\ ourserial \in [SlaveDomains -> SlaveSerials]
  /\ presigned \in [SlaveDomains -> BOOLEAN]
  /\ fresh \in [SlaveDomains -> BOOLEAN]
  /\ suckdomains \in Seq(SlaveDomains \X MasterSet)
  /\ suckSem \in Nat
  /\ tocheck \subseteq SlaveDomains
  /\ cycle \in {"idle", "polling", "applying"}
  /\ DOMAIN sdomains \subseteq SlaveDomains /\ \A z \in DOMAIN sdomains : sdomains[z] \in Check
  /\ retrieval \in [Threads -> Retrieval]

SlaveInit ==
  /\ mserial = [m \in MasterSet |-> [z \in SlaveDomains |-> FirstSerial]]
  /\ ourserial = [z \in SlaveDomains |-> FirstSerial]
  /\ presigned = [z \in SlaveDomains |-> FirstSerial \in SignedSerials]
  /\ fresh = [z \in SlaveDomains |-> TRUE]
  /\ suckdomains = <<>>
  /\ suckSem = 0
  /\ tocheck = {}
  /\ cycle = "idle"
  /\ sdomains = <<>>
  /\ retrieval = [t \in Threads |-> Idle]

-----------------------------------------------------------------------------
(* rfc1982LessThan: the difference, as a signed number of that width, is negative. *)
Rfc1982LessThan_plain(a, b) == a < b
Rfc1982LessThan(a, b) == (a - b) % SerialSpace >= SerialSpace \div 2

(* addSuckRequest without priority; the queue holds a request at most once. *)
AddSuckRequest_alwaysPost(z, m) ==
  /\ suckdomains' = IF Contains(suckdomains, <<z, m>>) THEN suckdomains
                    ELSE Append(suckdomains, <<z, m>>)
  /\ suckSem' = suckSem + 1
AddSuckRequest(z, m) ==
  IF Contains(suckdomains, <<z, m>>)
  THEN UNCHANGED queue
  ELSE /\ suckdomains' = Append(suckdomains, <<z, m>>)
       /\ suckSem' = suckSem + 1

-----------------------------------------------------------------------------
(***************************************************************************)
(* slaveRefresh.  The zones of d_tocheck, or else the unfresh ones, except *)
(* those already queued, are polled at a master drawn by random_shuffle.   *)
(***************************************************************************)
AlreadyQueued(z) == Contains(suckdomains, <<z, Masters[1]>>)

Collect ==
  LET rdomains == IF tocheck # {} THEN tocheck ELSE {z \in SlaveDomains : ~fresh[z]}
  IN /\ cycle = "idle"
     /\ rdomains # {}
     /\ sdomains' = [z \in {r \in rdomains : ~AlreadyQueued(r)} |->
                       [ours |-> IF tocheck # {} THEN NoAnswer ELSE ourserial[z],
                        theirs |-> NoAnswer, master |-> Masters[1], asked |-> FALSE]]
     /\ tocheck' = {}
     /\ cycle' = "polling"
     /\ UNCHANGED <<mserial, store, fresh, queue, retrieval>>

(* Inflighter: the zone's SOA answer from the drawn master, or a timeout. *)
Poll(z, m, answered) ==
  /\ cycle = "polling"
  /\ z \in DOMAIN sdomains
  /\ ~sdomains[z].asked
  /\ sdomains' = [sdomains EXCEPT ![z].asked = TRUE, ![z].master = m,
                    ![z].theirs = IF answered THEN mserial[m][z] ELSE NoAnswer]
  /\ UNCHANGED <<mserial, store, fresh, queue, tocheck, cycle, retrieval>>

EndPoll ==
  /\ cycle = "polling"
  /\ \A z \in DOMAIN sdomains : sdomains[z].asked
  /\ cycle' = "applying"
  /\ UNCHANGED <<mserial, store, fresh, queue, tocheck, sdomains, retrieval>>

(* What slaveRefresh does with an answer; equal serials of a presigned zone *)
(* also compare the dates of the SOA's signatures, which may differ.        *)
Apply(z, sigsDiffer) ==
  LET c == sdomains[z]
      ours == IF c.ours = NoAnswer THEN ourserial[z] ELSE c.ours
      setFresh == fresh' = [fresh EXCEPT ![z] = TRUE] /\ UNCHANGED queue
      suckIt == AddSuckRequest(z, c.master) /\ UNCHANGED fresh
  IN /\ cycle = "applying"
     /\ z \in DOMAIN sdomains
     /\ sigsDiffer => presigned[z] /\ c.theirs = ours
     /\ CASE c.theirs = NoAnswer -> UNCHANGED <<fresh, queue>>
          [] c.theirs # NoAnswer /\ Rfc1982LessThan(c.theirs, ours) -> setFresh
          [] c.theirs = ours /\ ~sigsDiffer -> setFresh
          [] OTHER -> suckIt
     /\ sdomains' = [y \in DOMAIN sdomains \ {z} |-> sdomains[y]]
     /\ UNCHANGED <<mserial, store, tocheck, cycle, retrieval>>

EndCycle ==
  /\ cycle = "applying"
  /\ DOMAIN sdomains = {}
  /\ cycle' = "idle"
  /\ sdomains' = <<>>
  /\ UNCHANGED <<mserial, store, fresh, queue, tocheck, retrieval>>

-----------------------------------------------------------------------------
(***************************************************************************)
(* retrievalLoopThread and suck.                                           *)
(***************************************************************************)
Wait(t) ==
  /\ retrieval[t].pc = "wait"
  /\ suckSem > 0
  /\ suckSem' = suckSem - 1
  /\ retrieval' = [retrieval EXCEPT ![t].pc = "woken"]
  /\ UNCHANGED <<mserial, store, fresh, suckdomains, tocheck, cycle, sdomains>>

Pop(t) ==
  /\ retrieval[t].pc = "woken"
  /\ IF suckdomains = <<>>
     THEN retrieval' = [retrieval EXCEPT ![t] = Idle] /\ UNCHANGED suckdomains
     ELSE /\ retrieval' = [retrieval EXCEPT ![t] = [Idle EXCEPT !.pc = "suck",
                          !.zone = suckdomains[1][1], !.master = suckdomains[1][2],
                          !.had = presigned[suckdomains[1][1]]]]
          /\ suckdomains' = Tail(suckdomains)
  /\ UNCHANGED <<mserial, store, fresh, suckSem, tocheck, cycle, sdomains>>

(* The master answers the AXFR with the zone as it is now; startTransaction. *)
StartAXFR(t) ==
  /\ retrieval[t].pc = "suck"
  /\ retrieval' = [retrieval EXCEPT ![t].pc = "axfr",
                  ![t].got = mserial[retrieval[t].master][retrieval[t].zone]]
  /\ UNCHANGED <<mserial, store, fresh, queue, tocheck, cycle, sdomains>>

(* A failure before the commit: abortTransaction, or never started. *)
FailAXFR(t) ==
  /\ retrieval[t].pc \in {"suck", "axfr"}
  /\ retrieval' = [retrieval EXCEPT ![t] = Idle]
  /\ UNCHANGED <<mserial, store, fresh, queue, tocheck, cycle, sdomains>>

(* The last chunk is in: commitTransaction. *)
Commit(t) ==
  LET z == retrieval[t].zone
  IN /\ retrieval[t].pc = "axfr"
     /\ ourserial' = [ourserial EXCEPT ![z] = retrieval[t].got]
     /\ retrieval' = [retrieval EXCEPT ![t].pc = "setfresh"]
     /\ UNCHANGED <<mserial, presigned, fresh, queue, tocheck, cycle, sdomains>>

SetFresh(t) ==
  /\ retrieval[t].pc = "setfresh"
  /\ fresh' = [fresh EXCEPT ![retrieval[t].zone] = TRUE]
  /\ retrieval' = [retrieval EXCEPT ![t].pc = "flags"]
  /\ UNCHANGED <<mserial, store, queue, tocheck, cycle, sdomains>>

(* A failure after the commit: there is nothing left to abort. *)
FailStore(t) ==
  /\ StoreMayFail
  /\ retrieval[t].pc \in {"setfresh", "flags"}
  /\ retrieval' = [retrieval EXCEPT ![t] = Idle]
  /\ UNCHANGED <<mserial, store, fresh, queue, tocheck, cycle, sdomains>>

(* setPresigned or unsetPresigned, judged by the flag read before the transfer. *)
PresignedFlag(got, had, flag) ==
  IF got \in SignedSerials THEN (IF had THEN flag ELSE TRUE)
                           ELSE (IF had THEN FALSE ELSE flag)
SetFlags(t) ==
  LET z == retrieval[t].zone
  IN /\ retrieval[t].pc = "flags"
     /\ presigned' =
          [presigned EXCEPT ![z] = PresignedFlag(retrieval[t].got, retrieval[t].had, @)]
     /\ retrieval' = [retrieval EXCEPT ![t] = Idle]
     /\ UNCHANGED <<mserial, ourserial, fresh, queue, tocheck, cycle, sdomains>>

-----------------------------------------------------------------------------
(* A zone changes at a master. *)
Update(m, z) ==
  /\ (mserial[m][z] - FirstSerial) % SerialSpace < MaxUpdates
  /\ mserial' = [mserial EXCEPT ![m][z] = (@ + 1) % SerialSpace]
  /\ UNCHANGED <<store, fresh, queue, tocheck, cycle, sdomains, retrieval>>

(* addSlaveCheckRequest: a NOTIFY from a master came in. *)
Notify(z) ==
  /\ tocheck' = tocheck \cup {z}
  /\ UNCHANGED <<mserial, store, fresh, queue, cycle, sdomains, retrieval>>

(* DLNotifyRetrieveHandler: the operator asks for a transfer, whatever the serials. *)
Retrieve(z, m) ==
  /\ AddSuckRequest(z, m)
  /\ UNCHANGED <<mserial, store, fresh, tocheck, cycle, sdomains, retrieval>>

(* The zone's refresh interval is over. *)
Expire(z) ==
  /\ fresh' = [fresh EXCEPT ![z] = FALSE]
  /\ UNCHANGED <<mserial, store, queue, tocheck, cycle, sdomains, retrieval>>

SlaveNext ==
  \/ Collect
  \/ \E z \in SlaveDomains, m \in MasterSet, answered \in BOOLEAN : Poll(z, m, answered)
  \/ EndPoll
  \/ \E z \in SlaveDomains, sigsDiffer \in BOOLEAN : Apply(z, sigsDiffer)
  \/ EndCycle
  \/ \E t \in Threads : Wait(t) \/ Pop(t) \/ StartAXFR(t) \/ FailAXFR(t) \/ Commit(t)
                          \/ SetFresh(t) \/ FailStore(t) \/ SetFlags(t)
  \/ \E m \in MasterSet, z \in SlaveDomains : Update(m, z) \/ Retrieve(z, m)
  \/ \E z \in SlaveDomains : Notify(z) \/ Expire(z)

SlaveSpec == SlaveInit /\ [][SlaveNext]_slaveVars

(***************************************************************************)
(* The communicator and the retrieval threads run when they can; a zone's  *)
(* refresh interval ends again and again; a poll and a transfer that are   *)
(* tried for ever succeed for ever.                                        *)
(***************************************************************************)
Fairness ==
  /\ WF_slaveVars(Collect) /\ WF_slaveVars(EndPoll) /\ WF_slaveVars(EndCycle)
  /\ \A z \in SlaveDomains :
       /\ WF_slaveVars(\E m \in MasterSet, answered \in BOOLEAN : Poll(z, m, answered))
       /\ SF_slaveVars(\E m \in MasterSet : Poll(z, m, TRUE))
       /\ WF_slaveVars(\E sigsDiffer \in BOOLEAN : Apply(z, sigsDiffer))
       /\ WF_slaveVars(Expire(z))
  /\ \A t \in Threads :
       /\ WF_slaveVars(Wait(t) \/ Pop(t) \/ SetFresh(t) \/ SetFlags(t))
       /\ SF_slaveVars(StartAXFR(t))
       /\ SF_slaveVars(Commit(t))
FairSlaveSpec == SlaveSpec /\ Fairness

-----------------------------------------------------------------------------
(***************************************************************************)
(* Every queued request has a wake-up of its own, so that no request is    *)
(* left behind and no retrieval thread wakes up for nothing.               *)
(***************************************************************************)
WakeupPerRequest ==
  suckSem + Cardinality({t \in Threads : retrieval[t].pc = "woken"}) = Len(suckdomains)

(***************************************************************************)
(* When the masters stop changing and agree, our copy becomes theirs and   *)
(* stays it, whatever timeouts and failed or overlapping transfers happen. *)
(***************************************************************************)
LastSerial == (FirstSerial + MaxUpdates) % SerialSpace
Converges ==
  (<>[](\A m \in MasterSet, z \in SlaveDomains : mserial[m][z] = LastSerial))
    => <>[](\A z \in SlaveDomains : ourserial[z] = LastSerial)
=============================================================================
