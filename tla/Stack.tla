-------------------------------- MODULE Stack --------------------------------
(***************************************************************************)
(* The stack of a project: one row per slot, written by requests that pick, *)
(* clear or apply a whole preset slot by slot, each statement on its own;   *)
(* the panel each request answers with, and the prompts that name the stack. *)
(* Rows outlive the server, whose next release may have other options.      *)
(***************************************************************************)
EXTENDS Catalog

CONSTANTS Forms,        \* the picks that forms send
          Requests

ASSUME FormsType == \A f \in Forms : f.option \in Options \cup {NoOption}

VARIABLES
    rows,       \* project_stack: the pick of each slot, NoPick without a row
    label,      \* projects.stack_preset
    requests,   \* the requests under way: what comes next, the slots still to be written,
                \* the preset asked for, the label it will show; beside: the slots others
                \* wrote meanwhile, and whether its label may be off
    panel,      \* the last panel answered, Unsure if a request came after it, if its read or
                \* label was refused or another preset was applied while its request was under way
    offered,    \* the options of the server's release
    renewed,    \* beside: the slots written since the server started
    touched     \* beside: the slots written by others than the preset of the label,
                \* or where it was refused, since its request began

stackVars == <<rows, label, requests, panel, offered, renewed, touched>>

Blank == Pick(NoOption, "", "")
\* The popover of a slot offers the options of it, of the release it was opened in.
FormsFor(s) == {f \in Forms : f.option \in Options => Catalogue[f.option].slot = s}

Unsure == [rows |-> <<>>, label |-> NoOption]
NoRows == [s \in Slots |-> NoPick]
Idle == [op |-> "idle", todo |-> {}, preset |-> NoOption, label |-> NoOption, raced |-> FALSE, touched |-> {}]

StackInit ==
    /\ rows = NoRows /\ label = NoOption
    /\ requests = [r \in Requests |-> Idle]
    /\ panel = [rows |-> NoRows, label |-> NoOption]
    /\ offered \in Releases /\ renewed = {} /\ touched = {}

-----------------------------------------------------------------------------
(* A request reads the project, writes, and answers with the panel.  The    *)
(* errors of its writes are dropped.                                        *)

\* The other requests under way are raced for a slot.
NoteWrite(r, s) ==
    [q \in Requests |-> IF q = r \/ requests[q].op = "idle" THEN requests[q]
                         ELSE [requests[q] EXCEPT !.touched = @ \cup {s}]]

\* A request that has read the project.
Loaded(op) == [Idle EXCEPT !.op = op, !.label = label]

\* Mutant: any option is stored.
AcceptAnyOption(pick) == TRUE

\* stackUpsert's check of the form.
Accept(pick) == pick.option \in offered \cup {NoOption}

\* A pick of nothing is a clearing.  An unknown option is refused; so is an
\* unknown slot, which changes nothing.
StackUpsert(r, s, pick) ==
    /\ requests[r].op = "idle" /\ Accept(pick)
    /\ \/ /\ rows' = [rows EXCEPT ![s] = IF pick = Blank THEN NoPick ELSE pick]
          /\ requests' = [NoteWrite(r, s) EXCEPT ![r] = Loaded("panel")]
          /\ touched' = touched \cup {s} /\ renewed' = renewed \cup {s}
       \/ requests' = [requests EXCEPT ![r] = Loaded("panel")] /\ UNCHANGED <<rows, touched, renewed>>
    /\ panel' = Unsure /\ UNCHANGED <<label, offered>>

\* Of a preset the release has; any other is refused.
StackApplyPreset(r, p) ==
    /\ requests[r].op = "idle" /\ p \in PresetsOf(offered) \cup {NoOption}
    /\ requests' = [requests EXCEPT ![r] =
           [Idle EXCEPT !.op = IF p = NoOption THEN "label" ELSE "slots", !.preset = p, !.label = label,
                        !.todo = IF p = NoOption THEN {} ELSE Slots]]
    /\ panel' = Unsure /\ UNCHANGED <<rows, label, offered, renewed, touched>>

\* In the order of a Go map.
UpsertStackPick(r, s) ==
    /\ requests[r].op = "slots" /\ s \in requests[r].todo
    /\ \/ /\ rows' = [rows EXCEPT ![s] = Pick(Preset[requests[r].preset][s], "", "")]
          /\ requests' = [NoteWrite(r, s) EXCEPT ![r].todo = @ \ {s}, ![r].touched = @ \ {s}]
          /\ touched' = touched \cup {s} /\ renewed' = renewed \cup {s}
       \/ /\ requests' = [requests EXCEPT ![r].todo = @ \ {s}, ![r].touched = @ \cup {s}]
          /\ UNCHANGED <<rows, touched, renewed>>
    /\ UNCHANGED <<label, panel, offered>>

\* Mutant: the slots may be still to be written.
SlotsWrittenOrNot(r) == requests[r].op \in {"slots", "label"}

SlotsWritten(r) == requests[r].op = "label" \/ (requests[r].op = "slots" /\ requests[r].todo = {})

\* Mutant: the panel names the preset that was read.
ShownLabelAsRead(r) == requests[r].label

\* The panel names the preset asked for, whether or not the label was written.
ShownLabel(r) == requests[r].preset

SetProjectStackPreset(r) ==
    /\ SlotsWritten(r)
    /\ LET p == requests[r].preset
       IN  \/ /\ label' = p /\ touched' = requests[r].touched
              /\ requests' = [q \in Requests |->
                     IF q = r THEN [requests[q] EXCEPT !.op = "panel", !.label = ShownLabel(r)]
                     ELSE [requests[q] EXCEPT !.raced = requests[q].op # "idle"]]
           \/ /\ requests' = [requests EXCEPT ![r].op = "panel", ![r].label = ShownLabel(r), ![r].raced = TRUE]
              /\ UNCHANGED <<label, touched>>
    /\ UNCHANGED <<rows, panel, offered, renewed>>

\* A read that is refused shows an empty stack.
RenderStackPanel(r) ==
    /\ requests[r].op = "panel"
    /\ panel' \in {Unsure} \cup (IF requests[r].raced THEN {} ELSE {[rows |-> rows, label |-> requests[r].label]})
    /\ requests' = [requests EXCEPT ![r] = Idle]
    /\ UNCHANGED <<rows, label, offered, renewed, touched>>

\* The server dies, between any two statements, and one starts, of any release.
Crash ==
    /\ requests' = [r \in Requests |-> Idle] /\ panel' = Unsure
    /\ offered' \in Releases /\ renewed' = {}
    /\ UNCHANGED <<rows, label, touched>>

StackNext ==
    \/ \E r \in Requests : \/ \E s \in Slots : UpsertStackPick(r, s) \/ \E pick \in FormsFor(s) : StackUpsert(r, s, pick)
                          \/ \E p \in Presets \cup {NoOption} : StackApplyPreset(r, p)
                          \/ SetProjectStackPreset(r) \/ RenderStackPanel(r)
    \/ Crash

StackSpec == StackInit /\ [][StackNext]_stackVars

-----------------------------------------------------------------------------

\* What is written agrees with the catalogue of the server that writes it: a page
\* of an earlier release, a preset half applied or two requests at once leave no
\* option that this server does not have.  So a prompt says of a slot what its chip
\* on the panel says, unless the slot has not been written since the server started,
\* and its option may have been taken out of the catalogue since, or the pick is a
\* version alone: the two resolve a pick by rules of their own (handlers.go:510, 514,
\* 604-631, catalog.go:3, 283, 310).
PromptAgreesWithPanel ==
    \A s \in Slots :
        ResolveValue(rows[s], offered) # ChipValue(rows[s]) =>
            \/ s \notin renewed /\ rows[s].option \notin offered
            \/ rows[s].option = NoOption /\ rows[s].text = "" /\ rows[s].version # ""

\* The label is true but for the slots that others wrote since its request began
\* or where that request was refused: of the rest every slot has the preset's pick,
\* and the banner warns of none as long as the runtime is among them
\* (handlers.go:553-559).
LabelIsTrue ==
    label # NoOption =>
        /\ \A s \in Slots \ touched : rows[s].option = Preset[label][s]
        /\ Runtime \notin touched => IncompatibleSlots(rows, offered) \subseteq touched

\* Once all have been answered, the last answer shows what is stored, rows and
\* label, unless its read or label was refused or another preset was applied while
\* its request was under way: each answers only after its own writes, and knows of
\* its own label (handlers.go:435, 560, 587, 627).
LastPanelIsCurrent ==
    (\A r \in Requests : requests[r].op = "idle") /\ panel # Unsure =>
        panel = [rows |-> rows, label |-> label]
=============================================================================
