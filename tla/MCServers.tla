------------------------------ MODULE MCServers ------------------------------
(***************************************************************************)
(* The servers of chapters 4 and 5 side by side, for one run of TLC: they    *)
(* share nothing, and only one of them runs in a behaviour.                  *)
(***************************************************************************)
EXTENDS ThreadedServer, ForkServer, UdpEcho, EventLoops, HeaderParser, DraftPool

VARIABLE program   \* which server runs; the others stay as they were at the start

allVars ==
  <<program, threadedVars, forkServerVars, udpVars, loopVars, parserVars, draftVars>>

(* A request line that is good, empty, or of another method; then nothing,  *)
(* one line, two lines with bytes that come late, or a CR without its LF.   *)
(* Each may be cut off by a client that closes early: RecvNothing.          *)
End == <<CR, LF>>
ClientRequests ==
  {first \o rest \o End :
     first \in {<<"get">> \o End, <<"post">> \o End, End, <<"get", LF>>},
     rest \in {<< >>, <<"text">> \o End, <<"text", CR>>, <<"text", "text">> \o End}}
Shortest == End \o End

TypeOK ==
  /\ ThreadedTypeOK
  /\ ForkServerTypeOK
  /\ UdpTypeOK
  /\ LoopTypeOK
  /\ ParserTypeOK
  /\ DraftTypeOK

(* What differs between the initial states of one server is fixed while     *)
(* another one runs.                                                        *)
IdleKindsFixed ==
  /\ program # "loops" => loopKind = "select"
  /\ program # "parser" => toSend = Shortest
  /\ program # "draft" => draftStop = FALSE

Init ==
  /\ program \in {"threads", "forks", "udp", "loops", "parser", "draft"}
  /\ ThreadedInit
  /\ ForkServerInit
  /\ UdpInit
  /\ LoopInit
  /\ ParserInit
  /\ DraftInit
  /\ IdleKindsFixed

ThreadsRun ==
  /\ program = "threads" /\ ThreadedNext
  /\ UNCHANGED <<program, forkServerVars, udpVars, loopVars, parserVars, draftVars>>

ForksRun ==
  /\ program = "forks" /\ ForkServerNext
  /\ UNCHANGED <<program, threadedVars, udpVars, loopVars, parserVars, draftVars>>

UdpRuns ==
  /\ program = "udp" /\ UdpNext
  /\ UNCHANGED <<program, threadedVars, forkServerVars, loopVars, parserVars, draftVars>>

LoopsRun ==
  /\ program = "loops" /\ LoopNext
  /\ UNCHANGED <<program, threadedVars, forkServerVars, udpVars, parserVars, draftVars>>

ParserRuns ==
  /\ program = "parser" /\ ParserNext
  /\ UNCHANGED <<program, threadedVars, forkServerVars, udpVars, loopVars, draftVars>>

DraftRuns ==
  /\ program = "draft" /\ DraftNext
  /\ UNCHANGED <<program, threadedVars, forkServerVars, udpVars, loopVars, parserVars>>

Next == ThreadsRun \/ ForksRun \/ UdpRuns \/ LoopsRun \/ ParserRuns \/ DraftRuns

(* What can run does run at last: main(), every thread, every child and the *)
(* loop; a client leaves at last.                                           *)
Fairness ==
  /\ WF_threadedVars(program = "threads" /\ MainStep)
  /\ \A t \in DoThreads : WF_threadedVars(program = "threads" /\ ThreadStep(t))
  /\ \A f \in Fds : WF_threadedVars(program = "threads" /\ ClientLeaves(f))
  /\ WF_forkServerVars(program = "forks" /\ ForkServerStep)
  /\ \A w \in Workers : WF_forkServerVars(program = "forks" /\ WorkerEnds(w))
  /\ WF_loopVars(program = "loops" /\ LoopStep)

Spec == Init /\ [][Next]_allVars /\ Fairness
=============================================================================
