------------------------------- MODULE Start -------------------------------
(***************************************************************************)
(* ocijail start (start.cpp): lets the container process of a created      *)
(* container go on to its command.  The whole of it is under the lock.     *)
(***************************************************************************)
EXTENDS Commands

\* Mutant of StartLoad: the saved status is not looked at.
StartLoadAny(p) ==
  /\ pc[p] = "load" /\ cmd[p] = "start"
  /\ Readable
  /\ SetStatus(p, json.of, "running")
  /\ Goto(p, "save")
  /\ UNCHANGED <<dirVars, fd, holder, hostVars, go, report, ran>>

\* Only a container whose saved status is "created" starts; its process is
\* not looked at.
StartLoad(p) ==
  /\ pc[p] = "load" /\ cmd[p] = "start"
  /\ \/ /\ Readable /\ json.status = "created"
        /\ SetStatus(p, json.of, "running")
        /\ Goto(p, "save")
        /\ UNCHANGED <<dirVars, fd, holder, hostVars, go, report, ran>>
     \/ Readable /\ json.status # "created" /\ Throw(p)

StartPrestart(p) ==
  /\ pc[p] = "prestart"
  /\ RunHooks(p, p, "prestart")
  /\ Goto(p, "open_fifo")
  /\ UNCHANGED <<hostVars, go, report>>

StartOpenFifo(p) ==
  /\ pc[p] = "open_fifo"
  /\ \/ /\ OpenFifo(p)
        /\ Goto(p, "write_fifo")
        /\ UNCHANGED <<stateVars, jail, xchild, mounted, child, go, report,
                       ran>>
     \/ fifoFile = NoProc /\ Throw(p)

\* Mutant of StartWriteFifo: the byte is not written.
StartWriteFifoNot(p) ==
  /\ pc[p] = "write_fifo"
  /\ Goto(p, "close_fifo")
  /\ UNCHANGED <<stateVars, hostVars, go, report, ran>>

StartWriteFifo(p) ==
  /\ pc[p] = "write_fifo"
  /\ fifo' = [fifo EXCEPT ![fifoFd[p]] = @ \cup {p}]
  /\ Goto(p, "close_fifo")
  /\ UNCHANGED <<stateVars, jail, xchild, mounted, fifoFd, child, go, report,
                 ran>>

StartCloseFifo(p) ==
  /\ pc[p] = "close_fifo"
  /\ CloseFifo(p)
  /\ Goto(p, "poststart")
  /\ UNCHANGED <<stateVars, jail, xchild, mounted, child, go, report, ran>>

StartPoststart(p) ==
  /\ pc[p] = "poststart"
  /\ RunHooks(p, p, "poststart")
  /\ Goto(p, "return")
  /\ UNCHANGED <<hostVars, go, report>>

StartStep(p) ==
  \/ StartLoad(p) \/ StartPrestart(p) \/ StartOpenFifo(p)
  \/ StartWriteFifo(p) \/ StartCloseFifo(p) \/ StartPoststart(p)
=============================================================================
