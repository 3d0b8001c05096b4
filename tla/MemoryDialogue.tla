-------------------------- MODULE MemoryDialogue ---------------------------
(***************************************************************************)
(* The turns of a chat in which handle_memory_command                      *)
(* (src/app/agents/memory_commands.py) shows the user what it is about to  *)
(* change in the memories, and changes it with the confirmation of a later *)
(* turn; meanwhile other callers change the memories over HTTP.  The       *)
(* dialogue is written with the thread's checkpoint when a turn ends.      *)
(*                                                                         *)
(* The language model may understand any command, search may find any      *)
(* memories of the user, and the match may keep any of them.  A turn that  *)
(* calls the service at most once is one step, taken when the worker of    *)
(* its process reads: nobody else sees the dialogue meanwhile.  The list   *)
(* of choices is two memories long.                                        *)
(***************************************************************************)
EXTENDS MemoryService

CONSTANT MaxCommands  \* bound on the commands the user gives

ASSUME DialogueConstantsOK == MaxCommands \in Nat

VARIABLES
  dlg,    \* MemoryDialogue: the pending command, the choices listed last, the last target
  turn,   \* a turn that calls the service more than once, or waits for a mutation
  said    \* commands so far

dialogue == <<dlg, turn, said>>
vars == <<service, dialogue>>

Actions == {"update", "delete", "delete_many", "delete_all", "history"}
Target == [id : Mine, was : Record]
MaxChoices == 2

PendingCommand == [action : Actions, stage : {"select", "confirm"}, choices : Seq(Target),
                   text : Texts \cup {None}, snapshot : Shown]

DialogueTypeOK ==
  /\ dlg \in [pending : PendingCommand \cup {None}, choices : Seq(Mine), last : Mine \cup {None}]
  /\ turn \in [pc : {"idle", "gather", "apply"}, proc : Procs \cup {None}, request : Requests \cup {None},
              ids : Seq(Mine), got : Seq(Target)]
  /\ said \in 0 .. MaxCommands

NoTurn == [pc |-> "idle", proc |-> None, request |-> None, ids |-> <<>>, got |-> <<>>]
NewDialogue == [pending |-> None, choices |-> <<>>, last |-> None]

\* PendingMemoryCommand; once its five minutes are over, all a turn can do is Forget it.
Preview(action, choices, text, snapshot) ==
  [action |-> action, stage |-> "confirm", choices |-> choices, text |-> text,
   snapshot |-> snapshot]

DialogueInit ==
  /\ ServiceInit
  /\ dlg = NewDialogue
  /\ turn = NoTurn
  /\ said = 0

TargetOf(m) == [id |-> m, was |-> store[m]]
Copy(ts) == [m \in Memories |->
               IF \E i \in DOMAIN ts : ts[i].id = m
               THEN ts[CHOOSE i \in DOMAIN ts : ts[i].id = m].was ELSE None]

\* A turn can read in process p: nothing is before it in the executor, and the lock is free.
CanRead(p) == pending[p] = <<>> /\ lock = None
Reads == \E p \in Procs : CanRead(p)

Reply(d) == dlg' = d /\ UNCHANGED <<turn, said, service>>

-----------------------------------------------------------------------------
(* What the user says while a command is pending. *)

Pending == turn.pc = "idle" /\ dlg.pending # None
Confirmable == Pending /\ dlg.pending.stage = "confirm"

\* "Cancel"; anything said too late; a message about something else; a command that fails, is
\* none, is about another user, lacks its text, counts, or names numbers that were not listed.
\* A confirmation that names another action, "say that again", and a turn of the email dialogue leave
\* the dialogue as it is.
Forget == Pending /\ Reply([dlg EXCEPT !.pending = None])

SelectChoice(i) ==
  /\ Pending /\ dlg.pending.stage = "select" /\ i \in DOMAIN dlg.pending.choices
  /\ LET t == dlg.pending.choices[i] IN
     IF dlg.pending.action = "history"
     THEN Reply([dlg EXCEPT !.pending = None, !.last = t.id])
     ELSE Reply([dlg EXCEPT !.pending.choices = <<t>>, !.pending.stage = "confirm", !.last = t.id])

\* MemoryMutation of the pending command.
Mutation(q) ==
  CASE q.action = "delete_all" -> Op("confirm_delete_all", <<>>, None, q.snapshot)
    [] q.action = "delete_many" ->
         Op("confirm_delete_many", [i \in DOMAIN q.choices |-> q.choices[i].id], None, Copy(q.choices))
    [] q.action = "delete" -> Op("confirm_delete", <<q.choices[1].id>>, None, Copy(q.choices))
    [] OTHER -> Op("confirm_update", <<q.choices[1].id>>, q.text, Copy(q.choices))

\* A confirmation, with the word of the pending action or without any.
Confirm(p, r) ==
  /\ Confirmable
  /\ Call(p, r, Mutation(dlg.pending), "waiting")
  /\ turn' = [NoTurn EXCEPT !.pc = "apply", !.proc = p, !.request = r]
  /\ UNCHANGED <<dlg, said>>

\* The mutation takes longer than the turn waits for it.
Timeout == turn.pc = "apply" /\ GiveUp(turn.request) /\ UNCHANGED dialogue

\* The mutation was answered: done, refused, or in doubt.
EndConfirm ==
  /\ turn.pc = "apply" /\ ~Waits(turn.request) /\ call[turn.request].result # "lost"
  /\ dlg' = IF call[turn.request].result \in {"updated", "unchanged", "deleted", "cleared"}
            THEN [pending |-> None, choices |-> <<>>,
                  last |-> IF dlg.pending.choices = <<>> THEN None ELSE dlg.pending.choices[1].id]
            ELSE [dlg EXCEPT !.pending = None]
  /\ turn' = NoTurn
  /\ Leave(turn.request)
  /\ UNCHANGED said

\* The run is cancelled or its process stops: the checkpoint keeps the dialogue of the turn before.
Interrupt ==
  /\ turn.pc # "idle"
  /\ turn' = NoTurn
  /\ IF turn.pc = "apply" THEN Leave(turn.request) ELSE UNCHANGED service
  /\ UNCHANGED <<dlg, said>>

-----------------------------------------------------------------------------
(* Commands; each replaces what was pending (NewCommand). *)

Command == turn.pc = "idle" /\ said < MaxCommands /\ said' = said + 1

Answer(d) == dlg' = d /\ UNCHANGED <<turn, service>>

Found == {ts \in SeqOf(Live, MaxChoices) : IsInjective(ts)}   \* of a search, or of a listing
Targets(ms) == [i \in DOMAIN ms |-> TargetOf(ms[i])]

\* "What do you remember (about ...)?", and "delete those about ..." before any is chosen.
List(ms) ==
  /\ Reads
  /\ Answer([dlg EXCEPT !.pending = None, !.choices = ms])

\* The memory meant by its number in the list, or by having been talked about last.
Meant(how) == IF how \in DOMAIN dlg.choices THEN dlg.choices[how]
              ELSE IF how = 0 THEN dlg.last ELSE None

\* "What was the second one?" and the history of a memory, which may be gone.
LookAt(how) ==
  /\ Reads /\ Meant(how) # None
  /\ Answer([dlg EXCEPT !.pending = None, !.last = Meant(how)])

\* "Delete the first and the second one": each is read again before the preview.
DeleteMany(p, is) ==
  /\ \A i \in Range(is) : i \in DOMAIN dlg.choices
  /\ turn' = [NoTurn EXCEPT !.pc = "gather", !.proc = p,
                            !.ids = [i \in DOMAIN is |-> dlg.choices[is[i]]]]
  /\ UNCHANGED <<dlg, service>>

Gather ==
  LET m == Head(turn.ids)
      got == Append(turn.got, TargetOf(m))
      q == Preview("delete_many", got, None, NothingShown)
  IN /\ turn.pc = "gather" /\ CanRead(turn.proc)
     /\ \/ /\ Owned(m) /\ Len(turn.ids) > 1
           /\ turn' = [turn EXCEPT !.ids = Tail(@), !.got = got]
           /\ UNCHANGED dlg
        \/ /\ Owned(m) /\ Len(turn.ids) = 1
           /\ turn' = NoTurn /\ dlg' = [dlg EXCEPT !.pending = q]
        \/ /\ ~Owned(m)
           /\ turn' = NoTurn /\ dlg' = [dlg EXCEPT !.pending = None]
     /\ UNCHANGED <<said, service>>

\* "Forget everything"; there is something to forget.
DeleteEverything ==
  /\ Reads /\ Live # {}
  /\ Answer([dlg EXCEPT !.pending = Preview("delete_all", <<>>, None, Snapshot)])

\* A change, deletion or history of one memory: found by number or as the last one and read
\* again, or by a search, after which the user may have to choose.
One(action, text, ms) ==
  LET ts == Targets(ms)
      q == [Preview(action, ts, text, NothingShown) EXCEPT !.stage = IF Len(ts) > 1 THEN "select" ELSE @]
  IN /\ Reads /\ ms # <<>>
     /\ action = "history" => Len(ms) > 1
     /\ Answer([dlg EXCEPT !.pending = q, !.choices = ms,
                           !.last = IF Len(ts) = 1 THEN ts[1].id ELSE @])

Change(action, text) ==
  \/ \E how \in 0 .. MaxChoices :
       Meant(how) \in Live /\ action # "history" /\ One(action, text, <<Meant(how)>>)
  \/ \E ms \in Found : One(action, text, ms)

-----------------------------------------------------------------------------
NewCommand ==
  /\ Command
  /\ \/ \E ms \in Found : List(ms)
     \/ \E how \in 0 .. MaxChoices : LookAt(how)
     \/ \E p \in Procs, is \in {<<1>>, <<1, 2>>, <<2, 1>>} : DeleteMany(p, is)
     \/ DeleteEverything
     \/ Change("delete", None) \/ Change("history", None)
     \/ \E t \in Texts : Change("update", t)

NextTurn ==
  \/ Forget
  \/ \E i \in 1 .. MaxChoices : SelectChoice(i)
  \/ \E p \in Procs, r \in Requests : Confirm(p, r)
  \/ Timeout \/ EndConfirm \/ Interrupt \/ Gather
  \/ NewCommand

NextService ==
  /\ \/ \E p \in Procs : Worker(p) \/ Fault(p) \/ Crash(p)
     \/ \E p \in Procs, r \in Requests, o \in Routes : Call(p, r, o, "unheard")
  /\ UNCHANGED dialogue

Next == NextTurn \/ NextService

Spec == DialogueInit /\ [][Next]_vars

-----------------------------------------------------------------------------
(* Properties. *)

\* A confirmed command changes or deletes a memory only while it is exactly what the preview
\* showed, whoever changed it in between and however often the confirmation is repeated after
\* a timeout or a cancelled turn (mem0_service.py:371).
OnlyAsShown ==
  [][\A p \in Procs, m \in Memories :
       /\ lock = p /\ pending[p] # <<>> /\ store'[m] # store[m]
       /\ call[Head(pending[p])].op.seen # NothingShown
       => store[m] = call[Head(pending[p])].op.seen[m]]_vars

=============================================================================
