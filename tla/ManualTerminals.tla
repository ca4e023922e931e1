--------------------------- MODULE ManualTerminals ---------------------------
(***************************************************************************)
(* The terminals of the agents a user runs by hand                         *)
(* (apps/desktop/src-tauri/src/manual_terminal.rs): the map of slots, the  *)
(* commands that start, close and write to the terminal of one agent on    *)
(* threads of their own, and the shutdown of the application.              *)
(*                                                                         *)
(* Agents share nothing but `stopping`, so one agent is modelled.  A slot  *)
(* and a process are named by the call of `start` that creates them.       *)
(***************************************************************************)
EXTENDS Naturals, FiniteSets

CONSTANT MaxCalls   \* bound: the commands the user interface sends, each on its thread

ASSUME CallAssumption == MaxCalls \in Nat

Calls  == 1 .. MaxCalls
NoCall == 0

VARIABLES
  session,    \* ManualTerminals.sessions: the slot of the agent
  stopping,   \* ManualTerminals.stopping
  holder,     \* who holds the lock of a slot's terminal
  terminal,   \* the process in a slot's terminal
  closing,    \* the slots whose `closing` is set
  closed,     \* the processes whose Terminal.closed is set
  process,    \* the processes
  typist,     \* who holds the lock of a process's input
  input,      \* the message in a process's input line, or part of it
  call,       \* each command: what it does, where it is, its slot, what it types into
  exit,       \* the same for the exit thread
  abandoned   \* history: processes that survived the attempt to close them

terminalVars == <<session, stopping, holder, terminal, closing, closed, process, typist, input, call, exit, abandoned>>

Live(p) == process[p] = "live"
NewCall == [op |-> "none", pc |-> "new", slot |-> NoCall, target |-> NoCall]

TerminalsTypeOK ==
  /\ session \in Calls \cup {NoCall} /\ stopping \in BOOLEAN
  /\ holder \in [Calls -> Calls \cup {NoCall}] /\ terminal \in [Calls -> Calls \cup {NoCall}]
  /\ closing \subseteq Calls /\ closed \subseteq Calls /\ abandoned \subseteq Calls
  /\ process \in [Calls -> {"none", "live", "dead"}]
  /\ typist \in [Calls -> Calls \cup {NoCall}] /\ input \in [Calls -> Calls \cup {NoCall}]
  /\ call \in [Calls -> [op: {"none", "start", "close", "write"}, slot: Calls \cup {NoCall}, target: Calls \cup {NoCall},
       pc: {"new", "enter", "lock", "spawned", "cleanup", "tidy", "unmark", "remove",
            "typing", "pasted", "done"}]]
  /\ exit \in [pc: {"open", "drain", "close", "done"}, slot: Calls \cup {NoCall}]

TerminalsInit ==
  /\ session = NoCall /\ stopping = FALSE
  /\ holder = [s \in Calls |-> NoCall] /\ terminal = [s \in Calls |-> NoCall]
  /\ closing = {} /\ closed = {} /\ abandoned = {}
  /\ process = [p \in Calls |-> "none"]
  /\ typist = [p \in Calls |-> NoCall] /\ input = [p \in Calls |-> NoCall]
  /\ call = [c \in Calls |-> NewCall] /\ exit = [pc |-> "open", slot |-> NoCall]

(* Calls are numbered in the order in which they begin.                    *)
New(c) == call[c] = NewCall /\ (c > 1 => call[c - 1] # NewCall)
Moved(r, pc) == IF pc = "done" THEN [NewCall EXCEPT !.op = r.op, !.pc = pc] ELSE [r EXCEPT !.pc = pc]
Goto(c, pc) == call' = [call EXCEPT ![c] = Moved(@, pc)]
At(c, op, pc) == call[c].op = op /\ call[c].pc = pc
Slot(c) == call[c].slot
Held(s) == holder[s] # NoCall
HasLive(s) == terminal[s] # NoCall /\ terminal[s] \notin closed /\ Live(terminal[s])

(* close: the process is killed, and two seconds later it is gone or not.  *)
Killed(p) ==
  \/ process' = [process EXCEPT ![p] = "dead"] /\ closed' = closed \cup {p} /\ UNCHANGED abandoned
  \/ Live(p) /\ UNCHANGED <<process, closed>> /\ abandoned' = abandoned \cup {p}

-----------------------------------------------------------------------------
(* start.                                                                  *)

BeginStart(c) ==
  /\ New(c)
  /\ call' = [call EXCEPT ![c].op = "start", ![c].pc = IF stopping THEN "cleanup" ELSE "enter"]
  /\ UNCHANGED <<session, stopping, holder, terminal, closing, closed, process, typist, input, exit, abandoned>>

(* The slot of the agent is found or made; a closing one is refused.       *)
EnterSlot(c) ==
  LET s == IF session = NoCall THEN c ELSE session
  IN /\ At(c, "start", "enter") /\ session' = s
     /\ call' = [call EXCEPT ![c].slot = s, ![c].pc = IF s \in closing THEN "cleanup" ELSE "lock"]
     /\ UNCHANGED <<stopping, holder, terminal, closing, closed, process, typist, input, exit, abandoned>>

MaySpawn(s) == s \notin closing /\ ~HasLive(s)

(* With the lock: a live terminal is kept, else a process is spawned, or   *)
(* cannot be.                                                              *)
Spawn(c) ==
  LET s == Slot(c)
  IN /\ At(c, "start", "lock") /\ ~Held(s)
     /\ \/ /\ MaySpawn(s) /\ process' = [process EXCEPT ![c] = "live"]
           /\ holder' = [holder EXCEPT ![s] = c] /\ Goto(c, "spawned")
        \/ MaySpawn(s) /\ Goto(c, "cleanup") /\ UNCHANGED <<process, holder>>
        \/ ~MaySpawn(s) /\ Goto(c, IF s \in closing THEN "cleanup" ELSE "done") /\ UNCHANGED <<process, holder>>
     /\ closed' = IF MaySpawn(s) /\ terminal[s] # NoCall THEN closed \cup {terminal[s]} ELSE closed
     /\ UNCHANGED <<session, stopping, terminal, closing, typist, input, exit, abandoned>>

(* The application may have begun to stop, or the slot to close, while the *)
(* process was spawned: then it is killed again.                           *)
(* Mutated form: that the application stops is looked up only before.      *)
ObsoleteSlotOnly(s) == s \in closing
Obsolete(s) == stopping \/ s \in closing

FinishStart(c) ==
  LET s == Slot(c)
  IN /\ At(c, "start", "spawned") /\ holder' = [holder EXCEPT ![s] = NoCall]
     /\ IF Obsolete(s) THEN Killed(c) /\ Goto(c, "cleanup") /\ UNCHANGED terminal
        ELSE terminal' = [terminal EXCEPT ![s] = c] /\ Goto(c, "done") /\ UNCHANGED <<closed, process, abandoned>>
     /\ UNCHANGED <<session, stopping, closing, typist, input, exit>>

-----------------------------------------------------------------------------
(* remove_idle_slot, after a start that failed, and remove_slot.           *)

Cleanup(c) ==
  /\ At(c, "start", "cleanup")
  /\ call' = [call EXCEPT ![c] = Moved([@ EXCEPT !.slot = session], IF session = NoCall THEN "done" ELSE "tidy")]
  /\ UNCHANGED <<session, stopping, holder, terminal, closing, closed, process, typist, input, exit, abandoned>>

IsIdle(s) == s \notin closing /\ (terminal[s] = NoCall \/ terminal[s] \in closed)

Tidy(c) ==
  LET s == Slot(c)
  IN /\ At(c, "start", "tidy") /\ ~Held(s)
     /\ IF IsIdle(s)
        THEN /\ closing' = closing \cup {s} /\ terminal' = [terminal EXCEPT ![s] = NoCall] /\ Goto(c, "remove")
        ELSE Goto(c, "done") /\ UNCHANGED <<closing, terminal>>
     /\ UNCHANGED <<session, stopping, holder, closed, process, typist, input, exit, abandoned>>

RemoveSlot(c) ==
  /\ call[c].pc = "remove" /\ session' = (IF session = Slot(c) THEN NoCall ELSE session) /\ Goto(c, "done")
  /\ UNCHANGED <<stopping, holder, terminal, closing, closed, process, typist, input, exit, abandoned>>

-----------------------------------------------------------------------------
(* close_session.                                                          *)

BeginClose(c) ==
  /\ New(c) /\ closing' = closing \cup ({session} \ {NoCall})
  /\ call' = [call EXCEPT ![c] = Moved([NewCall EXCEPT !.op = "close", !.slot = session],
                                     IF session \in closing \cup {NoCall} THEN "done" ELSE "lock")]
  /\ UNCHANGED <<session, stopping, holder, terminal, closed, process, typist, input, exit, abandoned>>

CloseTerminal(c) ==
  LET s == Slot(c) p == terminal[s]
  IN /\ At(c, "close", "lock") /\ ~Held(s)
     /\ \/ /\ p = NoCall /\ Goto(c, "remove") /\ UNCHANGED <<process, closed, terminal>>
        \/ /\ p # NoCall /\ process' = [process EXCEPT ![p] = "dead"] /\ closed' = closed \cup {p}
           /\ terminal' = [terminal EXCEPT ![s] = NoCall] /\ Goto(c, "remove")
        \/ p # NoCall /\ HasLive(s) /\ Goto(c, "unmark") /\ UNCHANGED <<process, closed, terminal>>
     /\ UNCHANGED <<session, stopping, holder, closing, typist, input, exit, abandoned>>

(* Closing was not confirmed: the terminal stays.                          *)
UnmarkClosing(c) ==
  /\ At(c, "close", "unmark") /\ closing' = closing \ {Slot(c)} /\ Goto(c, "done")
  /\ UNCHANGED <<session, stopping, holder, terminal, closed, process, typist, input, exit, abandoned>>

-----------------------------------------------------------------------------
(* write_input: a message is pasted and submitted by one Enter.            *)

BeginWrite(c) ==
  /\ New(c)
  /\ call' = [call EXCEPT ![c] = Moved([NewCall EXCEPT !.op = "write", !.slot = session],
                                     IF session \in closing \cup {NoCall} THEN "done" ELSE "lock")]
  /\ UNCHANGED <<session, stopping, holder, terminal, closing, closed, process, typist, input, exit, abandoned>>

(* Mutated form: the lock of the slot is kept while the message is typed.  *)
FindProcessHolding(c) ==
  LET s == Slot(c)
  IN /\ At(c, "write", "lock") /\ ~Held(s)
     /\ IF s \in closing \/ ~HasLive(s) THEN Goto(c, "done") /\ UNCHANGED holder
        ELSE /\ call' = [call EXCEPT ![c].pc = "typing", ![c].target = terminal[s]]
             /\ holder' = [holder EXCEPT ![s] = c]
     /\ UNCHANGED <<session, stopping, terminal, closing, closed, process, typist, input, exit, abandoned>>

(* The lock of the slot is given back before anything is typed.            *)
FindProcess(c) ==
  LET s == Slot(c)
  IN /\ At(c, "write", "lock") /\ ~Held(s)
     /\ IF s \in closing \/ ~HasLive(s) THEN Goto(c, "done")
        ELSE call' = [call EXCEPT ![c].pc = "typing", ![c].target = terminal[s]]
     /\ UNCHANGED <<session, stopping, holder, terminal, closing, closed, process, typist, input, exit, abandoned>>

(* The input is locked from the paste to the Enter.  A process that does   *)
(* not read makes its writer wait.                                         *)
Paste(c) ==
  LET p == call[c].target
  IN /\ At(c, "write", "typing") /\ typist[p] = NoCall
     /\ IF Live(p) THEN /\ input' = [input EXCEPT ![p] = c]
                        /\ typist' = [typist EXCEPT ![p] = c] /\ Goto(c, "pasted")
        ELSE Goto(c, "done") /\ UNCHANGED <<input, typist>>
     /\ UNCHANGED <<session, stopping, holder, terminal, closing, closed, process, exit, abandoned>>

(* The paste has settled, or was not confirmed, or the slot closes.        *)
Submit(c) ==
  LET p == call[c].target
  IN /\ At(c, "write", "pasted") /\ Goto(c, "done") /\ typist' = [typist EXCEPT ![p] = NoCall]
     /\ \/ Slot(c) \notin closing /\ Live(p) /\ input' = [input EXCEPT ![p] = NoCall]
        \/ UNCHANGED input
     /\ UNCHANGED <<session, stopping, holder, terminal, closing, closed, process, exit, abandoned>>

-----------------------------------------------------------------------------
(* shutdown, and processes that end by themselves.                         *)

BeginExit ==
  /\ exit.pc = "open" /\ stopping' = TRUE /\ exit' = [exit EXCEPT !.pc = "drain"]
  /\ UNCHANGED <<session, holder, terminal, closing, closed, process, typist, input, call, abandoned>>

DrainSessions ==
  /\ exit.pc = "drain" /\ session' = NoCall
  /\ exit' = [pc |-> IF session = NoCall THEN "done" ELSE "close", slot |-> session]
  /\ UNCHANGED <<stopping, holder, terminal, closing, closed, process, typist, input, call, abandoned>>

CloseDrained ==
  /\ exit.pc = "close" /\ ~Held(exit.slot) /\ exit' = [exit EXCEPT !.pc = "done"]
  /\ IF terminal[exit.slot] = NoCall THEN UNCHANGED <<process, closed, abandoned>> ELSE Killed(terminal[exit.slot])
  /\ UNCHANGED <<session, stopping, holder, terminal, closing, typist, input, call>>

ProcessEnds(p) ==
  /\ Live(p) /\ process' = [process EXCEPT ![p] = "dead"]
  /\ UNCHANGED <<session, stopping, holder, terminal, closing, closed, typist, input, call, exit, abandoned>>

StartStep(c) == EnterSlot(c) \/ Spawn(c) \/ FinishStart(c) \/ Cleanup(c) \/ Tidy(c)
CloseStep(c) == CloseTerminal(c) \/ UnmarkClosing(c)
WriteStep(c) == FindProcess(c) \/ Paste(c) \/ Submit(c)
ExitStep == DrainSessions \/ CloseDrained

TerminalsNext ==
  \/ \E c \in Calls : \/ BeginStart(c) \/ BeginClose(c) \/ BeginWrite(c)
                       \/ StartStep(c) \/ CloseStep(c) \/ WriteStep(c) \/ RemoveSlot(c) \/ ProcessEnds(c)
  \/ BeginExit \/ ExitStep

TerminalsSpec == TerminalsInit /\ [][TerminalsNext]_terminalVars

(* The threads of a start, a close and the exit run; nothing is assumed of *)
(* a writer, whom a full input may hold up for ever.                       *)
ThreadStep == ExitStep \/ \E c \in Calls : StartStep(c) \/ CloseStep(c) \/ RemoveSlot(c)
TerminalsFairSpec == TerminalsSpec /\ WF_terminalVars(ThreadStep)

-----------------------------------------------------------------------------
(* Properties.                                                             *)

(* An agent has one process at a time, whichever commands overlap; only    *)
(* the application's exit may overtake a start.                            *)
OneProcessPerAgent == ~stopping => Cardinality({p \in Calls : Live(p)} \ abandoned) <= 1

(* A process that lives is in the terminal the user can reach, or a thread *)
(* is at it, or closing it was tried in vain: no slot is taken out of the  *)
(* map with a process in it.                                               *)
NoProcessIsLost == \A p \in Calls : Live(p) =>
  \/ p \in abandoned \/ call[p].pc = "spawned"
  \/ session # NoCall /\ terminal[session] = p
  \/ exit.pc = "close" /\ terminal[exit.slot] = p

(* Once the shutdown is over and no command is under way, no process is    *)
(* left that could be closed: a start that overlaps the shutdown closes    *)
(* what it spawned.                                                        *)
ShutdownLeavesNothing ==
  exit.pc = "done" /\ (\A c \in Calls : call[c].pc \in {"new", "done"}) => \A p \in Calls : Live(p) => p \in abandoned

(* Between a message and its Enter nobody else types into the input line,  *)
(* so the Enter ends that message and no other.                            *)
MessagesAreWhole == \A c \in Calls : call[c].pc = "pasted" => input[call[c].target] = c

(* No overlap of commands and exit doubles a process, leaves one behind or *)
(* mixes two messages.                                                     *)
TerminalSafety == TerminalsTypeOK /\ OneProcessPerAgent /\ NoProcessIsLost /\ ShutdownLeavesNothing /\ MessagesAreWhole

(* The inductive strengthening of the invariants above.  A process has     *)
(* one life; a closed one is dead; a terminal holds one that was spawned.  *)
ProcessesAreTrue ==
  /\ \A p \in closed : process[p] = "dead"
  /\ \A s \in Calls : terminal[s] # NoCall => process[terminal[s]] # "none"
  /\ \A c \in Calls : /\ call[c].pc \in {"new", "enter"} \/ At(c, "start", "lock") => process[c] = "none"
                      /\ call[c].pc = "spawned" => process[c] # "none"

(* A slot is named by a start that has entered; commands that use one, and *)
(* the exit, have one.                                                     *)
Working(c) == call[c].pc \in {"lock", "spawned", "tidy", "unmark", "remove", "typing", "pasted"}
CommandsAreTrue == \A c \in Calls :
  /\ Working(c) => Slot(c) # NoCall
  /\ call[c].pc \in {"spawned", "cleanup", "tidy", "enter"} => call[c].op = "start"
  /\ call[c].pc = "unmark" => call[c].op = "close"
  /\ call[c].pc \in {"typing", "pasted"} => call[c].op = "write" /\ call[c].target # NoCall
  /\ call[c].pc = "lock" => call[c].op # "none"
ExitIsTrue ==
  /\ stopping <=> exit.pc # "open"
  /\ exit.pc = "close" => exit.slot # NoCall
  /\ exit.pc \in {"close", "done"} /\ session # NoCall => terminal[session] = NoCall
Fresh(s) == /\ s # session /\ s # exit.slot /\ s \notin closing /\ terminal[s] = NoCall
            /\ \A c \in Calls : Slot(c) # s
SlotsAreFresh == \A s \in Calls : call[s].pc \in {"new", "enter"} => Fresh(s)

(* The lock of a slot is held by the start that spawns in it, where there  *)
(* is nothing alive yet.                                                   *)
LocksAreTrue ==
  /\ \A s \in Calls : Held(s) => call[holder[s]].pc = "spawned" /\ Slot(holder[s]) = s
  /\ \A c \in Calls : call[c].pc = "spawned" =>
       holder[Slot(c)] = c /\ (terminal[Slot(c)] # NoCall => ~Live(terminal[Slot(c)]))

(* Whoever closes a slot is the only one; from then on it is empty; and a  *)
(* slot that nobody closes is in the map until the application stops.      *)
Closes(c) == At(c, "close", "lock") \/ call[c].pc \in {"unmark", "remove"}
ClosingIsOwned ==
  /\ \A c \in Calls : Closes(c) => Slot(c) \in closing
  /\ \A c, d \in Calls : Closes(c) /\ Closes(d) /\ Slot(c) = Slot(d) => c = d
  /\ \A c \in Calls : call[c].pc = "remove" => terminal[Slot(c)] = NoCall /\ ~Held(Slot(c))
  /\ \A c \in Calls : call[c].pc = "unmark" => ~Held(Slot(c))
UsedIsMapped == ~stopping => \A c \in Calls :
  /\ Working(c) /\ (Slot(c) \notin closing \/ Closes(c) \/ Held(Slot(c))) => session = Slot(c)

(* Between a paste and its Enter the writer has the input.                 *)
TypistsAreTrue == \A c \in Calls : call[c].pc = "pasted" => typist[call[c].target] = c

TerminalsInv ==
  /\ TerminalsTypeOK /\ NoProcessIsLost /\ MessagesAreWhole
  /\ ProcessesAreTrue /\ CommandsAreTrue /\ ExitIsTrue /\ SlotsAreFresh /\ LocksAreTrue
  /\ ClosingIsOwned /\ UsedIsMapped /\ TypistsAreTrue

(* Every start and close returns, and the shutdown ends, even when a       *)
(* message is held up by a process that does not read: in the end no such  *)
(* command is under way.                                                   *)
TerminalCallsReturn == <>[](
  /\ \A c \in Calls : call[c].op \in {"start", "close"} => call[c].pc = "done"
  /\ stopping => exit.pc = "done")
=============================================================================
