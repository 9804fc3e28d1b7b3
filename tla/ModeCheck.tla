------------------------------ MODULE ModeCheck ------------------------------
(***************************************************************************)
(* The ownership checker of edda-types and the control flow edda-mir gives *)
(* the body it accepted.                                                   *)
(*                                                                         *)
(* The walk of a function body (infer_stmt, synth_expr and the synth_*     *)
(* helpers) is one action per construct.  It keeps a state for every       *)
(* binding: `at[p]` is the environment (TyEnv) at program point p, the     *)
(* walk stands at point `cur`.  At the same time the constructs add the    *)
(* edges that MIR lowering gives them.  A body in which the walk reported  *)
(* nothing is then executed along those edges, from any branch to any      *)
(* branch and with any number of iterations; `live` holds, per binding,    *)
(* the fields that have a value at run time.                               *)
(*                                                                         *)
(* The bindings are the parameters of the function.  A body has no         *)
(* statement that control never reaches (dead code), and the guards of     *)
(* match arms have no operation on a parameter.                            *)
(***************************************************************************)
EXTENDS Naturals, Sequences, FiniteSets

CONSTANTS Bindings,     \* the parameters
          Fields,       \* the fields of their product type
          InitParams,   \* `init` parameters: uninitialised at entry
          TakeParams,   \* `take` parameters
          Mutable,      \* parameters that are not default-mode
          Linear,       \* bindings of a `linear` type
          Droppable,    \* fields whose type is trivially droppable
          None,         \* no field: an operation on the whole binding
          Modes,        \* the operations a body is made of
          Avoids,       \* the oversights of the walk that a body keeps clear of
          MaxPoints,    \* bound: the points of a body
          MaxDepth      \* bound: nesting of constructs

\* What the walk overlooks: that `break` and `continue` leave a loop body in the
\* middle, that `?` leaves the body of a handler in the middle, that the right
\* operand of && and || may be skipped, that a match on a value that is not of
\* a sum type may take none of its arms, and that a compound assignment reads
\* its target.  A body that avoids one does it only where it does no harm.
Oversights == {"jump", "raise", "skip", "gap", "update"}

ASSUME ModeAssumption ==
    /\ InitParams \cup TakeParams \subseteq Mutable
    /\ InitParams \cap TakeParams = {}
    /\ Mutable \subseteq Bindings /\ Linear \subseteq Bindings
    /\ Droppable \subseteq Fields /\ Fields # {} /\ None \notin Fields
    /\ Modes \subseteq {"read", "move", "assign", "update", "mutable", "take", "init"}
    /\ Avoids \subseteq Oversights
    /\ MaxPoints \in Nat \ {0} /\ MaxDepth \in Nat

VARIABLES phase,    \* "walk", "rejected" or "run"
          cur,      \* the point the walk has reached
          at,       \* TyEnv at every point
          edges,    \* what MIR lowering emitted
          flow,     \* how control leaves the block so far
          stack,    \* the open constructs, innermost last
          pos,      \* the point the execution has reached
          live      \* the fields of each binding that hold a value

walkVars == <<cur, at, edges, flow, stack>>
vars == <<phase, walkVars, pos, live>>
-----------------------------------------------------------------------------
(* BindingState.                                                           *)

Consumed   == [tag |-> "Consumed", fields |-> {}]
Uninit     == [tag |-> "Uninit", fields |-> {}]
Valid      == [tag |-> "Valid", fields |-> {}]
Partial(F) == [tag |-> "PartialInit", fields |-> F]

\* PartialInit(F) with every field in F is promoted to Valid.
States == {Consumed, Uninit, Valid} \cup
          {Partial(F) : F \in (SUBSET Fields) \ {Fields}}

Envs == [Bindings -> States]

\* The fields a state says are valid.
ValidSet(s) == IF s = Valid THEN Fields ELSE s.fields

FieldState(s, f) ==
    IF f \in ValidSet(s) THEN Valid
    ELSE IF s.tag = "PartialInit" THEN Uninit ELSE s

\* Mutant of Glb: an arm that does not initialise does not count.
GlbKeepingInit(s, t) ==
    IF Consumed \in {s, t} THEN Consumed
    ELSE IF s \in {Valid, Uninit} THEN t
    ELSE IF t \in {Valid, Uninit} THEN s
    ELSE Partial(s.fields \cap t.fields)

Glb(s, t) ==
    IF Consumed \in {s, t} THEN Consumed
    ELSE IF Uninit \in {s, t} THEN Uninit
    ELSE IF s = Valid THEN t
    ELSE IF t = Valid THEN s
    ELSE Partial(s.fields \cap t.fields)

\* TyEnv::merge_glb
Merge(e, g) == [b \in Bindings |-> Glb(e[b], g[b])]

\* Mutant of Summary: the promotion to Valid is missing.
SummaryUnpromoted(F) == IF F = {} THEN Uninit ELSE Partial(F)

\* The state a set of valid fields is summarised to.
Summary(F) == IF F = Fields THEN Valid
              ELSE IF F = {} THEN Uninit ELSE Partial(F)
-----------------------------------------------------------------------------
(* Operations on a binding or on one of its fields: a read, a by-value     *)
(* move out of a bare path, an assignment, a compound assignment (+= and   *)
(* the like, "update"), and the three argument modes.                      *)

\* A move is of a whole binding.
Ops == {op \in [mode : Modes, b : Bindings, f : Fields \cup {None}] :
          op.mode = "move" => op.f = None}

Whole(op) == op.f = None

\* The gate of an operation in state s; without it one error is reported.
\* The walk of an assignment does not look at its operator.
Admits(s, op) ==
    /\ op.mode \in {"mutable", "init"} => op.b \in Mutable
    /\ op.mode \in {"read", "move", "mutable", "take"} =>
          IF Whole(op) THEN s = Valid ELSE FieldState(s, op.f) = Valid
    /\ op.mode = "init" =>
          IF Whole(op) THEN s = Uninit
                       ELSE FieldState(s, op.f) \in {Uninit, Consumed}
    /\ op.mode \in {"assign", "update"} /\ Whole(op) => s # Consumed

\* The state after it.
Post(s, op) ==
    CASE op.mode = "read" -> s
      [] op.mode = "move" -> IF op.b \in Linear THEN Consumed ELSE s
      [] op.mode = "take" -> IF Whole(op) THEN Consumed
                             ELSE Summary(ValidSet(s) \ {op.f})
      [] OTHER            -> IF Whole(op) THEN Valid
                             ELSE Summary(ValidSet(s) \cup {op.f})

\* What the operation does to the fields V of its binding at run time, and
\* the fields it reads.
Named(op) == IF Whole(op) THEN Fields ELSE {op.f}

Effect(V, op) ==
    CASE op.mode = "read" -> V
      [] op.mode = "move" -> IF op.b \in Linear THEN {} ELSE V
      [] op.mode = "take" -> V \ Named(op)
      [] OTHER            -> V \cup Named(op)

Needs(op) == IF op.mode \in {"read", "move", "update", "mutable", "take"}
             THEN Named(op) ELSE {}

\* An edge of the lowered body: an operation (a set of one), or none.
Edge(p, ops, q) == [from |-> p, ops |-> ops, to |-> q]
Goto(S, q) == {Edge(p, {}, q) : p \in S}
-----------------------------------------------------------------------------
Points == 1 .. MaxPoints

\* How control leaves a block, and whether block_always_exits takes the block
\* for one that leaves the function: it does so for "exits" and "slips".
Flows == {"falls", "jumps", "exits", "slips"}

\* The flow of a block that control falls through or not, and that the walk
\* takes for an exit or not.
FlowOf(falls, exits) == IF falls THEN (IF exits THEN "slips" ELSE "falls")
                                 ELSE (IF exits THEN "exits" ELSE "jumps")

\* "match" has an arm for every value; "partial" is a match on a value that is
\* not of a sum type, whose arms need not cover it.
Kinds == {"if", "else", "match", "partial", "loop", "for", "body", "recovery", "and"}

\* An open construct: the point it was entered at, the join of its finished
\* arms and whether all of them always exit, the ends of the arms control
\* falls out of, the points that break out of it or raise to it, and whether
\* the walk already takes the block around it for an exit.
Frames == [kind : Kinds, entry : Points, acc : Envs, all : BOOLEAN,
           ends : SUBSET Points, outs : SUBSET Points, past : BOOLEAN]

Init ==
    /\ phase = "walk" /\ cur = 1 /\ edges = {} /\ flow = "falls"
    /\ stack = <<>> /\ pos = 1
    /\ at = [p \in Points |-> [b \in Bindings |->
               IF b \in InitParams THEN Uninit ELSE Valid]]
    /\ live = [b \in Bindings |-> IF b \in InitParams THEN {} ELSE Fields]

Walking == phase = "walk" /\ UNCHANGED <<pos, live>>
Falls   == flow \in {"falls", "slips"}
Exits   == flow \in {"exits", "slips"}
Open    == Walking /\ Falls
Top     == stack[Len(stack)]
Rest    == SubSeq(stack, 1, Len(stack) - 1)

\* The walk goes on at a new point with environment e and open constructs
\* st, as long as the points left are enough to close them.
NewPoint(e, E, st) ==
    /\ cur + 1 + Len(st) <= MaxPoints
    /\ stack' = st
    /\ cur' = cur + 1
    /\ at' = [at EXCEPT ![cur + 1] = e]
    /\ edges' = edges \cup E
    /\ phase' = phase

\* The point the walk has reached, if control can fall through it.
Falling == IF Falls THEN {cur} ELSE {}

Frame(k) == [kind |-> k, entry |-> cur, acc |-> at[cur], all |-> TRUE,
             ends |-> {}, outs |-> {}, past |-> Exits]

\* What environment d says is valid is valid in e.
Within(d, e) == \A b \in Bindings : ValidSet(d[b]) \subseteq ValidSet(e[b])

-----------------------------------------------------------------------------
(* Statements and operands.                                                *)

Apply(op) ==
    /\ Open /\ Admits(at[cur][op.b], op)
    /\ op.mode = "update" /\ "update" \in Avoids =>
          Needs(op) \subseteq ValidSet(at[cur][op.b])
    /\ NewPoint([at[cur] EXCEPT ![op.b] = Post(at[cur][op.b], op)],
                {Edge(cur, {op}, cur + 1)}, stack)
    /\ UNCHANGED flow

Report ==
    /\ phase' = "rejected"
    /\ UNCHANGED walkVars

Reject(op) == Open /\ ~Admits(at[cur][op.b], op) /\ Report

\* return, raise and panic: the function is left.
Return ==
    /\ Open /\ flow' = "exits"
    /\ UNCHANGED <<phase, cur, at, edges, stack>>
-----------------------------------------------------------------------------
(* if, match and handle: arms on copies of the entering environment.       *)

OpenBranch(k) ==
    /\ Open /\ Len(stack) < MaxDepth
    /\ NewPoint(at[cur], Goto({cur}, cur + 1), Append(stack, Frame(k)))
    /\ flow' = "falls"

\* The join of the arms so far with the arm that ends here.  An arm that
\* always exits is left out, unless all do.
Joined(fr) ==
    IF Exits
    THEN IF fr.all /\ fr.kind \notin {"match", "partial"} THEN Merge(at[cur], fr.acc)
                                                         ELSE fr.acc
    ELSE IF fr.all THEN at[cur] ELSE Merge(at[cur], fr.acc)

NextArm ==
    /\ Walking /\ Len(stack) > 0 /\ Top.kind \in {"if", "match", "partial"}
    /\ NewPoint(at[Top.entry], Goto({Top.entry}, cur + 1), Append(Rest,
         [Top EXCEPT !.kind = IF @ = "if" THEN "else" ELSE @,
                     !.acc  = IF Top.kind = "if" THEN at[cur] ELSE Joined(Top),
                     !.all  = @ /\ Exits,
                     !.ends = @ \cup Falling]))
    /\ flow' = "falls"

\* Where control comes from when no arm of a partial match is taken.
NoArm == IF Top.kind = "partial" THEN {Top.entry} ELSE {}

\* Control falls through if it falls out of one of the arms.
CloseBranch ==
    /\ Walking /\ Len(stack) > 0
    /\ Top.kind \in {"else", "match", "partial", "recovery"}
    /\ LET ends == Top.ends \cup Falling \cup NoArm
           exit == Top.all /\ Exits /\ Top.kind # "recovery"
       IN  /\ Top.kind = "partial" /\ "gap" \in Avoids =>
                 ~exit /\ Within(Joined(Top), at[Top.entry])
           /\ NewPoint(Joined(Top), Goto(ends, cur + 1), Rest)
           /\ flow' = FlowOf(ends # {}, exit \/ Top.past)

\* An if without an else: the other arm is the entering environment.
CloseIf ==
    /\ Walking /\ Len(stack) > 0 /\ Top.kind = "if"
    /\ NewPoint(IF Exits THEN at[Top.entry] ELSE Merge(at[Top.entry], at[cur]),
                Goto({Top.entry} \cup Falling, cur + 1), Rest)
    /\ flow' = FlowOf(TRUE, Top.past)

OpenHandle ==
    /\ Open /\ Len(stack) < MaxDepth /\ cur + Len(stack) + 2 <= MaxPoints
    /\ stack' = Append(stack, Frame("body"))
    /\ flow' = "falls"
    /\ UNCHANGED <<phase, cur, at, edges>>

\* A call with `?` in the body of a handler of its error.
Try(i) ==
    /\ Open /\ stack[i].kind = "body"
    /\ "raise" \in Avoids => Within(at[stack[i].entry], at[cur])
    /\ NewPoint(at[cur], Goto({cur}, cur + 1),
                [stack EXCEPT ![i].outs = @ \cup {cur}])
    /\ UNCHANGED flow

\* The recovery starts from the environment the handler was entered with.
Recover ==
    /\ Walking /\ Len(stack) > 0 /\ Top.kind = "body"
    /\ NewPoint(at[Top.entry], Goto(Top.outs, cur + 1), Append(Rest,
         [Top EXCEPT !.kind = "recovery", !.acc = at[cur],
                     !.all = Exits, !.ends = Falling]))
    /\ flow' = "falls"
-----------------------------------------------------------------------------
(* loop and for.                                                           *)

OpenLoop(k) ==
    /\ Open /\ Len(stack) < MaxDepth
    /\ NewPoint(at[cur], Goto({cur}, cur + 1), Append(stack, Frame(k)))
    /\ flow' = "falls"

\* The head of loop i is the point after its entry.
HeadOf(i) == stack[i].entry + 1

Innermost(i) ==
    /\ stack[i].kind \in {"loop", "for"}
    /\ \A j \in i + 1 .. Len(stack) : stack[j].kind \notin {"loop", "for"}

Break(i) ==
    /\ Open /\ Innermost(i)
    /\ "jump" \in Avoids => Within(at[stack[i].entry], at[cur])
    /\ stack' = [stack EXCEPT ![i].outs = @ \cup {cur}]
    /\ flow' = FlowOf(FALSE, Exits)
    /\ UNCHANGED <<phase, cur, at, edges>>

Continue(i) ==
    /\ Open /\ Innermost(i)
    /\ "jump" \in Avoids => Within(at[stack[i].entry], at[cur])
    /\ edges' = edges \cup Goto({cur}, HeadOf(i))
    /\ flow' = FlowOf(FALSE, Exits)
    /\ UNCHANGED <<phase, cur, at, stack>>

Looping == Walking /\ Len(stack) > 0 /\ Top.kind \in {"loop", "for"}

\* check_loop_reentry; after the loop the entering environment is back.
CloseLoop ==
    /\ Looping /\ at[cur] = at[Top.entry]
    /\ NewPoint(at[Top.entry],
         Goto(Falling, Top.entry + 1) \cup Goto(Top.outs, cur + 1) \cup
         (IF Top.kind = "for" THEN Goto({Top.entry + 1}, cur + 1) ELSE {}),
         Rest)
    /\ flow' = FlowOf(TRUE, Top.past)

RejectLoop == Looping /\ at[cur] # at[Top.entry] /\ Report
-----------------------------------------------------------------------------
(* && and ||: the walk takes both operands one after the other.            *)

OpenAnd ==
    /\ Open /\ Len(stack) < MaxDepth
    /\ NewPoint(at[cur], Goto({cur}, cur + 1), Append(stack, Frame("and")))
    /\ flow' = "falls"

CloseAnd ==
    /\ Walking /\ Len(stack) > 0 /\ Top.kind = "and"
    /\ "skip" \in Avoids => Within(at[cur], at[Top.entry])
    /\ NewPoint(at[cur], Goto({Top.entry} \cup Falling, cur + 1), Rest)
    /\ flow' = FlowOf(TRUE, Top.past)
-----------------------------------------------------------------------------
(* The end of the body.                                                    *)

\* check_fn_body_exit
Leavable(b) ==
    LET s == at[cur][b] IN
    \/ s \in {Valid, Consumed}
    \/ s.tag = "PartialInit" /\ b \in TakeParams /\ s.fields \subseteq Droppable

Finish ==
    /\ Walking /\ stack = <<>> /\ \A b \in Bindings : Leavable(b)
    /\ phase' = "run"
    /\ UNCHANGED walkVars

RejectExit ==
    /\ Walking /\ stack = <<>> /\ \E b \in Bindings : ~Leavable(b)
    /\ Report

\* The accepted body runs.
Run(e) ==
    /\ phase = "run" /\ e.from = pos
    /\ pos' = e.to
    /\ live' = [b \in Bindings |->
                 IF \E op \in e.ops : op.b = b
                 THEN Effect(live[b], CHOOSE op \in e.ops : TRUE)
                 ELSE live[b]]
    /\ UNCHANGED <<phase, walkVars>>

Branching ==
    \/ \E k \in {"if", "match", "partial"} : OpenBranch(k)
    \/ NextArm \/ CloseBranch \/ CloseIf

Handling == OpenHandle \/ Recover \/ \E i \in 1 .. Len(stack) : Try(i)

LoopStep ==
    \/ \E k \in {"loop", "for"} : OpenLoop(k)
    \/ \E i \in 1 .. Len(stack) : Break(i) \/ Continue(i)
    \/ CloseLoop \/ RejectLoop

Next ==
    \/ \E op \in Ops : Apply(op) \/ Reject(op)
    \/ Return \/ Branching \/ Handling \/ LoopStep
    \/ OpenAnd \/ CloseAnd \/ Finish \/ RejectExit
    \/ \E e \in edges : Run(e)

Spec == Init /\ [][Next]_vars
-----------------------------------------------------------------------------
(* Properties.                                                             *)

\* Every point has a well-formed environment: in particular, no state
\* PartialInit(F) names every field, since apply_field_state_transition
\* promotes it (the exit check counts on that: "should have been promoted").
TypeOK ==
    /\ phase \in {"walk", "rejected", "run"}
    /\ cur \in Points /\ pos \in 1 .. cur
    /\ at \in [Points -> Envs]
    /\ edges \subseteq [from : 1 .. cur, ops : SUBSET Ops, to : 1 .. cur]
    /\ flow \in Flows
    /\ stack \in Seq(Frames)
    /\ \A i \in 1 .. Len(stack) :
          /\ stack[i].entry <= cur /\ stack[i].outs \subseteq 1 .. cur
          /\ stack[i].ends \subseteq 1 .. cur
    /\ live \in [Bindings -> SUBSET Fields]

\* A body the checker reported nothing about never reads, moves or borrows
\* a field that has no value, whichever branches its execution takes and
\* however often it goes round its loops: the gates of synth_path,
\* synth_field and the mode transitions, the joins of if, match and handle
\* and the loop re-entry check together are sound.
NoDeadUse ==
    phase = "run" => \A e \in edges : e.from = pos =>
        \A op \in e.ops : Needs(op) \subseteq live[op.b]
=============================================================================
