---------------------------- MODULE MCTtyConsole ----------------------------
(* The target's end of the console, one of two per behaviour.  The driver   *)
(* (TtyConsole): a ring of four, two-byte packets, one-byte reads of        *)
(* /dev/shadowtrace and a flip buffer of two, so that rooms of 0, 1 and 2   *)
(* occur; eight bytes are enough to overflow the ring.  PID 1 (ShadowInit): *)
(* lines of two characters and reads of two bytes, so that both cut what    *)
(* four typed bytes make up; an array of junk only without a console.      *)
EXTENDS TtyConsole, ShadowInit

VARIABLE end

MCVars == <<end, vars, pid1Vars>>

MCInit ==
  /\ Init /\ Pid1Init
  /\ \/ end = "driver" /\ files[0] = "console" /\ line[0] = Nul
     \/ end = "pid1" /\ (files[0] = "console" <=> line[0] = Nul)
Driver(A) == end = "driver" /\ A /\ UNCHANGED <<end, pid1Vars>>
Init1(A) == end = "pid1" /\ A /\ UNCHANGED <<end, vars>>
MCNext ==
  \/ Driver(Activate) \/ Driver(StopPolling) \/ Driver(CancelPending) \/ Driver(CancelDone)
  \/ Driver(TimerExpires) \/ Driver(PollSteps) \/ Driver(Consume)
  \/ Driver(\E length1 \in TraceReads : TraceRead(length1))
  \/ Init1(OpenTty) \/ Init1(OpenTrace) \/ Init1(Duplicate)
  \/ Init1(Exec) \/ Init1(StartShell) \/ Init1(Read)
  \/ Init1(Wait) \/ Init1(EndLine) \/ Init1(EraseLast)
  \/ Init1(Insert) \/ Init1(Drop)
MCSpec ==
  /\ MCInit /\ [][MCNext]_MCVars
  /\ WF_MCVars(Driver(TimerExpires)) /\ WF_MCVars(Driver(PollSteps))
  /\ WF_MCVars(Driver(Consume))
=============================================================================
