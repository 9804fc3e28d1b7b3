--------------------------- MODULE ModeCheckProofs ---------------------------
(***************************************************************************)
(* Every environment of the walk is well formed, and a body that keeps   *)
(* clear of the oversights of the walk never uses a field without a value, *)
(* for every number of bindings, fields, points and nested constructs.     *)
(***************************************************************************)
EXTENDS ModeCheck, TLAPS

(***************************************************************************)
(* The lattice and the transitions.                                        *)
(***************************************************************************)

\* What ValidSet says of a state.
LEMMA StateFacts ==
    ASSUME NEW s \in States
    PROVE  /\ ValidSet(s) \subseteq Fields
           /\ s = Valid \/ ValidSet(s) # Fields
           /\ ValidSet(Valid) = Fields /\ ValidSet(Consumed) = {}
           /\ ValidSet(Uninit) = {}
           /\ s = Valid \/ ValidSet(s) = s.fields
BY ModeAssumption DEF States, ValidSet, Valid, Consumed, Uninit, Partial

\* BindingState::glb is a state, and claims no field that one side lacks.
LEMMA GlbFacts ==
    ASSUME NEW s \in States, NEW t \in States
    PROVE  /\ Glb(s, t) \in States
           /\ ValidSet(Glb(s, t)) \subseteq ValidSet(s) \cap ValidSet(t)
<1>1. CASE s \in {Consumed, Uninit, Valid} \/ t \in {Consumed, Uninit, Valid}
  BY <1>1, StateFacts
     DEF States, Glb, ValidSet, Valid, Consumed, Uninit, Partial
<1>2. ASSUME s \notin {Consumed, Uninit, Valid}, t \notin {Consumed, Uninit, Valid}
      PROVE  /\ Glb(s, t) \in States
             /\ ValidSet(Glb(s, t)) \subseteq ValidSet(s) \cap ValidSet(t)
  <2>1. PICK F \in (SUBSET Fields) \ {Fields} : s = Partial(F)
    BY <1>2 DEF States
  <2>2. PICK G \in (SUBSET Fields) \ {Fields} : t = Partial(G)
    BY <1>2 DEF States
  <2>3. s.fields = F /\ t.fields = G
    BY <2>1, <2>2 DEF Partial
  <2>4. Glb(s, t) = Partial(F \cap G)
    BY <1>2, <2>3 DEF Glb
  <2>5. F \cap G \in (SUBSET Fields) \ {Fields}
    OBVIOUS
  <2>6. Partial(F \cap G) \in States
    BY <2>5 DEF States
  <2>7. ValidSet(Partial(F \cap G)) = F \cap G /\ ValidSet(s) = F /\ ValidSet(t) = G
    BY <2>1, <2>2 DEF ValidSet, Partial, Valid
  <2> QED
    BY <2>4, <2>6, <2>7
<1> QED
  BY <1>1, <1>2

\* The summary of a set of fields is the state that claims just these.
LEMMA SummaryFacts ==
    ASSUME NEW F \in SUBSET Fields
    PROVE  Summary(F) \in States /\ ValidSet(Summary(F)) = F
<1>1. CASE F \in {{}, Fields}
  BY <1>1, ModeAssumption DEF Summary, States, ValidSet, Valid, Uninit
<1>2. CASE F \notin {{}, Fields}
  <2>1. Summary(F) = Partial(F)
    BY <1>2 DEF Summary
  <2>2. Partial(F) \in States
    BY <1>2 DEF States
  <2>3. ValidSet(Partial(F)) = F
    BY DEF ValidSet, Partial, Valid
  <2> QED
    BY <2>1, <2>2, <2>3
<1> QED
  BY <1>1, <1>2

\* The parts of an operation.
LEMMA OpFacts ==
    ASSUME NEW op \in Ops
    PROVE  /\ op.b \in Bindings /\ op.f \in Fields \cup {None}
           /\ op.mode \in {"read", "move", "assign", "update", "mutable", "take", "init"}
           /\ op.mode = "move" => Whole(op)
           /\ Named(op) \subseteq Fields
BY ModeAssumption DEF Ops, Whole, Named

\* The state after an admitted operation claims no more than the operation
\* leaves of what was claimed before it.
LEMMA PostFacts ==
    ASSUME NEW s \in States, NEW op \in Ops, Admits(s, op)
    PROVE  /\ Post(s, op) \in States
           /\ op.mode # "update" => Needs(op) \subseteq ValidSet(s)
           /\ ValidSet(Post(s, op)) \subseteq Effect(ValidSet(s), op)
<1>0. /\ op.f \in Fields \cup {None}
      /\ op.mode \in {"read", "move", "assign", "update", "mutable", "take", "init"}
      /\ op.mode = "move" => Whole(op)
  BY OpFacts
<1>1. Consumed \in States /\ Valid \in States
  BY DEF States
<1>2. /\ ValidSet(s) \subseteq Fields /\ ValidSet(Valid) = Fields
      /\ ValidSet(Consumed) = {}
  BY StateFacts
<1>3. op.mode # "update" => Needs(op) \subseteq ValidSet(s)
  <2> SUFFICES ASSUME op.mode \in {"read", "move", "mutable", "take"}
               PROVE  Named(op) \subseteq ValidSet(s)
    BY DEF Needs
  <2>1. CASE Whole(op)
    BY <1>2, <2>1 DEF Admits, Named
  <2>2. ASSUME ~Whole(op)
        PROVE  Named(op) \subseteq ValidSet(s)
    <3>1. op.f \in Fields /\ Named(op) = {op.f}
      BY <1>0, <2>2 DEF Whole, Named
    <3>2. FieldState(s, op.f) = Valid
      BY <2>2 DEF Admits
    <3>3. Uninit # Valid
      BY DEF Uninit, Valid
    <3> QED
      BY <1>2, <3>1, <3>2, <3>3 DEF FieldState
  <2> QED
    BY <2>1, <2>2
<1>4. ASSUME Whole(op)
      PROVE  /\ Post(s, op) \in States
             /\ ValidSet(Post(s, op)) \subseteq Effect(ValidSet(s), op)
  <2>1. Named(op) = Fields
    BY <1>4 DEF Named
  <2>2. CASE op.mode \in {"read", "move"}
    BY <1>1, <1>2, <2>2 DEF Post, Effect
  <2>3. CASE op.mode = "take"
    BY <1>1, <1>2, <1>4, <2>3 DEF Post, Effect
  <2>4. CASE op.mode \in {"assign", "update", "mutable", "init"}
    BY <1>1, <1>2, <1>4, <2>1, <2>4 DEF Post, Effect
  <2> QED
    BY <1>0, <2>2, <2>3, <2>4
<1>5. ASSUME ~Whole(op)
      PROVE  /\ Post(s, op) \in States
             /\ ValidSet(Post(s, op)) \subseteq Effect(ValidSet(s), op)
  <2>1. op.f \in Fields /\ Named(op) = {op.f}
    BY <1>0, <1>5 DEF Whole, Named
  <2> DEFINE F == ValidSet(s) \cup {op.f}
             G == ValidSet(s) \ {op.f}
  <2>2. /\ Summary(F) \in States /\ ValidSet(Summary(F)) = F
        /\ Summary(G) \in States /\ ValidSet(Summary(G)) = G
    BY <1>2, <2>1, SummaryFacts
  <2> QED
    BY <1>0, <1>5, <2>1, <2>2 DEF Post, Effect
<1> QED
  BY <1>3, <1>4, <1>5

\* Effect only looks at the fields that hold a value.
LEMMA EffectMonotone ==
    ASSUME NEW op \in Ops, NEW V \in SUBSET Fields, NEW W \in SUBSET Fields,
           V \subseteq W
    PROVE  Effect(V, op) \subseteq Effect(W, op) /\ Effect(W, op) \subseteq Fields
BY OpFacts DEF Effect

\* A merge holds valid only what both branches do.
LEMMA MergeFacts ==
    ASSUME NEW e \in Envs, NEW g \in Envs
    PROVE  /\ Merge(e, g) \in Envs
           /\ \A b \in Bindings : ValidSet(Merge(e, g)[b]) \subseteq
                                   ValidSet(e[b]) \cap ValidSet(g[b])
<1>1. \A b \in Bindings : e[b] \in States /\ g[b] \in States
  BY DEF Envs
<1>2. \A b \in Bindings : /\ Glb(e[b], g[b]) \in States
                          /\ ValidSet(Glb(e[b], g[b])) \subseteq
                                ValidSet(e[b]) \cap ValidSet(g[b])
  BY <1>1, GlbFacts
<1> QED
  BY <1>2 DEF Merge, Envs
-----------------------------------------------------------------------------
(***************************************************************************)
(* Type correctness.  The head of a loop is a point of its own.            *)
(***************************************************************************)
HeadInv ==
    \A i \in 1 .. Len(stack) :
        stack[i].kind \in {"loop", "for"} => stack[i].entry + 1 <= cur

TypeInv == TypeOK /\ HeadInv

\* The types of the parts of a frame, as far as point c.
FrameType(c, fr) ==
    /\ fr \in Frames
    /\ fr.entry <= c /\ fr.outs \subseteq 1 .. c /\ fr.ends \subseteq 1 .. c
    /\ fr.kind \in {"loop", "for"} => fr.entry + 1 <= c

\* The frames of a well typed state.
LEMMA TypeInvFrames ==
    ASSUME TypeInv
    PROVE  /\ stack \in Seq(Frames) /\ Len(stack) \in Nat
           /\ \A i \in 1 .. Len(stack) : FrameType(cur, stack[i])
           /\ cur \in 1 .. MaxPoints /\ MaxPoints \in Nat
           /\ at \in [Points -> Envs] /\ at[cur] \in Envs
           /\ \A i \in 1 .. Len(stack) : at[stack[i].entry] \in Envs
<1>1. /\ stack \in Seq(Frames) /\ at \in [Points -> Envs]
      /\ cur \in 1 .. MaxPoints /\ MaxPoints \in Nat
  BY ModeAssumption DEF TypeInv, TypeOK, Points
<1>2. Len(stack) \in Nat /\ \A i \in 1 .. Len(stack) : stack[i] \in Frames
  BY <1>1
<1>3. \A i \in 1 .. Len(stack) : FrameType(cur, stack[i])
  BY <1>2 DEF TypeInv, TypeOK, HeadInv, FrameType
<1>4. \A i \in 1 .. Len(stack) : stack[i].entry \in Points
  BY <1>2 DEF Frames
<1> QED
  BY <1>1, <1>2, <1>3, <1>4 DEF Points

EdgeTypes(c) == [from : 1 .. c, ops : SUBSET Ops, to : 1 .. c]

\* A step to a new point keeps the types if what it adds has them.
LEMMA NewPointType ==
    ASSUME TypeInv, NEW e \in Envs, NEW E \in SUBSET EdgeTypes(cur + 1),
           NEW st \in Seq(Frames), NewPoint(e, E, st),
           \A i \in 1 .. Len(st) : FrameType(cur + 1, st[i]),
           flow' \in Flows, UNCHANGED <<pos, live>>
    PROVE  TypeInv'
<1>1. /\ cur \in 1 .. MaxPoints /\ MaxPoints \in Nat /\ Len(st) \in Nat
      /\ at \in [Points -> Envs]
  BY TypeInvFrames
<1>2. cur' = cur + 1 /\ cur + 1 \in Points /\ stack' = st
  BY <1>1 DEF NewPoint, Points
<1>3. at' \in [Points -> Envs]
  BY <1>1, <1>2 DEF NewPoint
<1>4. edges' \subseteq EdgeTypes(cur')
  BY <1>1, <1>2 DEF NewPoint, TypeInv, TypeOK, EdgeTypes
<1>5. phase' \in {"walk", "rejected", "run"} /\ pos' \in 1 .. cur'
      /\ live' \in [Bindings -> SUBSET Fields]
  BY <1>1, <1>2 DEF NewPoint, TypeInv, TypeOK
<1>6. /\ stack' \in Seq(Frames)
      /\ \A i \in 1 .. Len(stack') : FrameType(cur', stack'[i])
  BY <1>2
<1> QED
  BY <1>2, <1>3, <1>4, <1>5, <1>6 DEF TypeInv, TypeOK, HeadInv, FrameType, EdgeTypes

\* Sequences of frames as the constructs are opened and closed.
LEMMA StackFacts ==
    ASSUME TypeInv
    PROVE  /\ Len(stack) \in Nat /\ cur \in Nat
           /\ \A i \in 1 .. Len(stack) : FrameType(cur + 1, stack[i])
           /\ \A fr \in Frames :
                /\ Append(stack, fr) \in Seq(Frames)
                /\ Len(Append(stack, fr)) = Len(stack) + 1
                /\ \A i \in 1 .. Len(stack) : Append(stack, fr)[i] = stack[i]
                /\ Append(stack, fr)[Len(stack) + 1] = fr
<1>1. stack \in Seq(Frames) /\ cur \in 1 .. MaxPoints
      /\ \A i \in 1 .. Len(stack) : FrameType(cur, stack[i])
  BY TypeInvFrames
<1>2. \A i \in 1 .. Len(stack) : FrameType(cur + 1, stack[i])
  BY <1>1, ModeAssumption DEF FrameType, Frames, Points
<1> QED
  BY <1>1, <1>2

\* The stack without its top frame.
LEMMA RestFacts ==
    ASSUME TypeInv, Len(stack) > 0
    PROVE  /\ Rest \in Seq(Frames) /\ Len(Rest) = Len(stack) - 1
           /\ \A i \in 1 .. Len(Rest) : i \in 1 .. Len(stack) /\ Rest[i] = stack[i]
           /\ Top \in Frames /\ FrameType(cur, Top) /\ FrameType(cur + 1, Top)
           /\ Top.entry \in 1 .. cur /\ at[Top.entry] \in Envs
           /\ \A fr \in Frames :
                /\ Append(Rest, fr) \in Seq(Frames)
                /\ Len(Append(Rest, fr)) = Len(stack)
                /\ \A i \in 1 .. Len(Rest) : Append(Rest, fr)[i] = stack[i]
                /\ Append(Rest, fr)[Len(stack)] = fr
<1>1. /\ stack \in Seq(Frames) /\ cur \in 1 .. MaxPoints /\ Len(stack) \in Nat
      /\ Len(stack) \in 1 .. Len(stack)
      /\ \A i \in 1 .. Len(stack) : FrameType(cur, stack[i])
      /\ \A i \in 1 .. Len(stack) : at[stack[i].entry] \in Envs
  BY TypeInvFrames
<1>2. /\ Rest \in Seq(Frames) /\ Len(Rest) = Len(stack) - 1
      /\ \A i \in 1 .. Len(Rest) : i \in 1 .. Len(stack) /\ Rest[i] = stack[i]
  <2> DEFINE n == Len(stack) - 1
  <2>1. n \in Nat /\ n <= Len(stack)
    BY <1>1
  <2>2. Rest = SubSeq(stack, 1, n)
    BY DEF Rest
  <2> HIDE DEF n
  <2>3. /\ SubSeq(stack, 1, n) \in Seq(Frames) /\ Len(SubSeq(stack, 1, n)) = n
        /\ \A i \in 1 .. n : SubSeq(stack, 1, n)[i] = stack[i]
    BY <1>1, <2>1
  <2>4. \A i \in 1 .. n : i \in 1 .. Len(stack)
    BY <1>1, <2>1
  <2> QED
    BY <2>2, <2>3, <2>4 DEF n
<1>3. /\ Top \in Frames /\ FrameType(cur, Top) /\ FrameType(cur + 1, Top)
      /\ at[Top.entry] \in Envs
  <2>1. Top = stack[Len(stack)]
    BY DEF Top
  <2>2. FrameType(cur, Top) /\ FrameType(cur + 1, Top) /\ at[Top.entry] \in Envs
    BY <1>1, <2>1, StackFacts
  <2> QED
    BY <2>2 DEF FrameType
<1>4. Top.entry \in 1 .. cur
  <2>1. Top.entry \in Points /\ Top.entry <= cur
    BY <1>3 DEF FrameType, Frames
  <2> QED
    BY <1>1, <2>1, ModeAssumption DEF Points
<1>5. \A fr \in Frames :
         /\ Append(Rest, fr) \in Seq(Frames)
         /\ Len(Append(Rest, fr)) = Len(stack)
         /\ \A i \in 1 .. Len(Rest) : Append(Rest, fr)[i] = Rest[i]
         /\ Append(Rest, fr)[Len(stack)] = fr
  BY <1>1, <1>2
<1> QED
  BY <1>2, <1>3, <1>4, <1>5

\* The three ways a step to a new point treats the open constructs.
LEMMA PushType ==
    ASSUME TypeInv, NEW fr \in Frames, FrameType(cur + 1, fr)
    PROVE  LET st == Append(stack, fr)
           IN  st \in Seq(Frames) /\ \A i \in 1 .. Len(st) : FrameType(cur + 1, st[i])
<1>1. \A i \in 1 .. Len(stack) + 1 : i \in 1 .. Len(stack) \/ i = Len(stack) + 1
  BY StackFacts
<1> QED
  BY <1>1, StackFacts

\* Replacing the top frame keeps the types.
LEMMA ReplaceType ==
    ASSUME TypeInv, Len(stack) > 0, NEW fr \in Frames, FrameType(cur + 1, fr)
    PROVE  LET st == Append(Rest, fr)
           IN  st \in Seq(Frames) /\ \A i \in 1 .. Len(st) : FrameType(cur + 1, st[i])
<1>1. \A i \in 1 .. Len(stack) : i \in 1 .. Len(Rest) \/ i = Len(stack)
  BY StackFacts, RestFacts
<1> QED
  BY <1>1, StackFacts, RestFacts

\* Removing the top frame keeps the types.
LEMMA PopType ==
    ASSUME TypeInv, Len(stack) > 0
    PROVE  /\ Rest \in Seq(Frames)
           /\ \A i \in 1 .. Len(Rest) : FrameType(cur + 1, Rest[i])
BY StackFacts, RestFacts

\* Edges to a point are well typed.
LEMMA GotoType ==
    ASSUME NEW c \in Nat, NEW S \in SUBSET (1 .. c), NEW q \in 1 .. c
    PROVE  Goto(S, q) \in SUBSET EdgeTypes(c)
BY DEF Goto, Edge, EdgeTypes

\* A join is an environment.
LEMMA JoinedType ==
    ASSUME TypeInv, NEW fr \in Frames
    PROVE  Joined(fr) \in Envs
BY TypeInvFrames, MergeFacts DEF Joined, Frames

\* A new frame is well typed.
LEMMA FrameOfType ==
    ASSUME TypeInv, NEW k \in Kinds
    PROVE  Frame(k) \in Frames /\ FrameType(cur + 1, Frame(k))
<1>1. cur \in 1 .. MaxPoints /\ at[cur] \in Envs /\ MaxPoints \in Nat
  BY TypeInvFrames
<1> QED
  BY <1>1 DEF Frame, FrameType, Frames, Points, Exits

\* The flow of a block.
LEMMA FlowFacts ==
    /\ \A falls, exits \in BOOLEAN : FlowOf(falls, exits) \in Flows
    /\ \A falls \in BOOLEAN : FlowOf(falls, FALSE) # "slips"
    /\ \A exits \in BOOLEAN : FlowOf(FALSE, exits) # "slips"
    /\ Falls \in BOOLEAN /\ Exits \in BOOLEAN
BY DEF FlowOf, Flows, Falls, Exits

\* A frame with other jumps out of it.
LEMMA FrameOuts ==
    ASSUME NEW fr \in Frames, NEW o \in SUBSET Points
    PROVE  LET gr == [fr EXCEPT !.outs = o]
           IN  /\ gr \in Frames /\ gr.kind = fr.kind /\ gr.acc = fr.acc
               /\ gr.all = fr.all /\ gr.ends = fr.ends
               /\ gr.entry = fr.entry /\ gr.outs = o /\ gr.past = fr.past
BY DEF Frames

\* Every step of the walk keeps the types.
LEMMA TypeStep ==
    ASSUME TypeInv, [Next]_vars
    PROVE  TypeInv'
<1>0. /\ cur \in 1 .. MaxPoints /\ MaxPoints \in Nat /\ cur \in Nat
      /\ at \in [Points -> Envs] /\ at[cur] \in Envs
      /\ stack \in Seq(Frames) /\ Len(stack) \in Nat
      /\ \A i \in 1 .. Len(stack) : FrameType(cur, stack[i])
      /\ \A i \in 1 .. Len(stack) : FrameType(cur + 1, stack[i])
      /\ \A i \in 1 .. Len(stack) : at[stack[i].entry] \in Envs
      /\ flow \in Flows
  BY TypeInvFrames, StackFacts DEF TypeInv, TypeOK
<1>1. ASSUME NEW op \in Ops, Apply(op)
      PROVE  TypeInv'
  <2>1. op.b \in Bindings /\ at[cur][op.b] \in States
    BY <1>0, OpFacts DEF Envs
  <2>2. Post(at[cur][op.b], op) \in States
    BY <1>1, <2>1, PostFacts DEF Apply
  <2>3. [at[cur] EXCEPT ![op.b] = Post(at[cur][op.b], op)] \in Envs
    BY <1>0, <2>1, <2>2 DEF Envs
  <2>4. {Edge(cur, {op}, cur + 1)} \in SUBSET EdgeTypes(cur + 1)
    BY <1>0 DEF Edge, EdgeTypes
  <2> QED
    BY <1>0, <1>1, <2>3, <2>4, NewPointType DEF Apply, Open, Walking
<1>2. ASSUME NEW k \in {"if", "match", "partial", "loop", "for", "and"},
             NewPoint(at[cur], Goto({cur}, cur + 1), Append(stack, Frame(k))),
             flow' \in Flows, UNCHANGED <<pos, live>>
      PROVE  TypeInv'
  <2>1. Frame(k) \in Frames /\ FrameType(cur + 1, Frame(k))
    BY FrameOfType DEF Kinds
  <2>2. Goto({cur}, cur + 1) \in SUBSET EdgeTypes(cur + 1)
    BY <1>0, GotoType
  <2> QED
    BY <1>0, <1>2, <2>1, <2>2, PushType, NewPointType
<1>3. ASSUME NextArm
      PROVE  TypeInv'
  <2>1. Len(stack) > 0 /\ flow' \in Flows /\ UNCHANGED <<pos, live>>
    BY <1>3 DEF NextArm, Walking, Flows
  <2> DEFINE fr == [Top EXCEPT !.kind = IF @ = "if" THEN "else" ELSE @,
                     !.acc  = IF Top.kind = "if" THEN at[cur] ELSE Joined(Top),
                     !.all  = @ /\ Exits,
                     !.ends = @ \cup Falling]
  <2>2. Top \in Frames /\ FrameType(cur + 1, Top) /\ at[Top.entry] \in Envs
        /\ Top.entry \in 1 .. cur /\ Top.kind \in {"if", "match", "partial"}
    BY <1>3, <2>1, RestFacts DEF NextArm
  <2>3. Joined(Top) \in Envs
    BY <2>2, JoinedType
  <2>4. Falling \subseteq 1 .. cur
    BY <1>0 DEF Falling
  <2>5. fr \in Frames /\ fr.kind \in {"else", "match", "partial"} /\ fr.entry = Top.entry
        /\ fr.outs = Top.outs /\ fr.ends = Top.ends \cup Falling
    <3> DEFINE k == IF Top.kind = "if" THEN "else" ELSE Top.kind
               a == IF Top.kind = "if" THEN at[cur] ELSE Joined(Top)
               l == Top.all /\ Exits
               n == Top.ends \cup Falling
    <3>1. k \in Kinds /\ k \in {"else", "match", "partial"} /\ a \in Envs
      BY <1>0, <2>2, <2>3 DEF Kinds
    <3>2. l \in BOOLEAN
      OBVIOUS
    <3>3. n \in SUBSET Points
      <4>1. Top.ends \in SUBSET Points
        BY <2>2 DEF Frames
      <4>2. 1 .. cur \subseteq Points
        BY <1>0 DEF Points
      <4> QED
        BY <2>4, <4>1, <4>2
    <3>4. fr = [Top EXCEPT !.kind = k, !.acc = a, !.all = l, !.ends = n]
      BY <2>2 DEF Frames
    <3> HIDE DEF k, a, l, n, fr
    <3>5. fr \in Frames /\ fr.kind = k /\ fr.entry = Top.entry
          /\ fr.outs = Top.outs /\ fr.ends = n
      BY <2>2, <3>1, <3>2, <3>3, <3>4 DEF Frames
    <3> QED
      BY <3>1, <3>5 DEF n
  <2>6. FrameType(cur + 1, fr)
    BY <1>0, <2>2, <2>4, <2>5 DEF FrameType
  <2>7. Goto({Top.entry}, cur + 1) \in SUBSET EdgeTypes(cur + 1)
    BY <1>0, <2>2, GotoType
  <2>8. NewPoint(at[Top.entry], Goto({Top.entry}, cur + 1), Append(Rest, fr))
    BY <1>3 DEF NextArm
  <2> HIDE DEF fr
  <2> QED
    BY <2>1, <2>2, <2>5, <2>6, <2>7, <2>8, ReplaceType, NewPointType
<1>4. ASSUME CloseBranch \/ CloseIf \/ CloseAnd
      PROVE  TypeInv'
  <2>1. Len(stack) > 0 /\ flow' \in Flows /\ UNCHANGED <<pos, live>>
    <3>1. Len(stack) > 0 /\ UNCHANGED <<pos, live>>
      BY <1>4 DEF CloseBranch, CloseIf, CloseAnd, Walking
    <3>2. Top.past \in BOOLEAN
      BY <3>1, RestFacts DEF Frames
    <3> QED
      BY <1>4, <3>1, <3>2, FlowFacts DEF CloseBranch, CloseIf, CloseAnd
  <2>2. /\ Top \in Frames /\ at[Top.entry] \in Envs /\ Top.entry \in 1 .. cur
        /\ Top.ends \subseteq 1 .. cur
    BY <2>1, RestFacts DEF FrameType
  <2>3. Joined(Top) \in Envs
    BY <2>2, JoinedType
  <2>4. Falling \subseteq 1 .. cur
    BY <1>0 DEF Falling
  <2>5. PICK e \in Envs, S \in SUBSET (1 .. cur) : NewPoint(e, Goto(S, cur + 1), Rest)
    <3>1. CASE CloseBranch
      BY <2>2, <2>3, <2>4, <3>1 DEF CloseBranch, NoArm
    <3>2. CASE CloseIf
      <4>1. Merge(at[Top.entry], at[cur]) \in Envs
        BY <1>0, <2>2, MergeFacts
      <4> QED
        BY <2>2, <2>4, <3>2, <4>1 DEF CloseIf
    <3>3. CASE CloseAnd
      BY <1>0, <2>2, <2>4, <3>3 DEF CloseAnd
    <3> QED
      BY <1>4, <3>1, <3>2, <3>3
  <2>6. Goto(S, cur + 1) \in SUBSET EdgeTypes(cur + 1)
    BY <1>0, GotoType
  <2> QED
    BY <2>1, <2>5, <2>6, PopType, NewPointType
<1>5. ASSUME OpenHandle
      PROVE  TypeInv'
  <2>1. Frame("body") \in Frames /\ FrameType(cur, Frame("body"))
    BY <1>0, FrameOfType DEF Kinds, Frame, FrameType
  <2>2. stack' \in Seq(Frames) /\ \A i \in 1 .. Len(stack') : FrameType(cur, stack'[i])
    <3>1. \A i \in 1 .. Len(stack) + 1 : i \in 1 .. Len(stack) \/ i = Len(stack) + 1
      BY <1>0
    <3> QED
      BY <1>0, <1>5, <2>1, <3>1, StackFacts DEF OpenHandle
  <2> QED
    BY <1>5, <2>2
       DEF OpenHandle, Open, Walking, TypeInv, TypeOK, HeadInv, FrameType, Flows
<1>6. ASSUME NEW i \in 1 .. Len(stack)
      PROVE  LET fr == [stack[i] EXCEPT !.outs = @ \cup {cur}]
                 st == [stack EXCEPT ![i].outs = @ \cup {cur}]
             IN  /\ st \in Seq(Frames) /\ Len(st) = Len(stack)
                 /\ \A j \in 1 .. Len(stack) : st[j] = IF j = i THEN fr ELSE stack[j]
                 /\ \A j \in 1 .. Len(st) : FrameType(cur, st[j]) /\ FrameType(cur + 1, st[j])
  <2> DEFINE fr == [stack[i] EXCEPT !.outs = @ \cup {cur}]
             st == [stack EXCEPT ![i].outs = @ \cup {cur}]
  <2>1. stack[i] \in Frames /\ FrameType(cur, stack[i]) /\ FrameType(cur + 1, stack[i])
    BY <1>0
  <2>2. fr \in Frames /\ FrameType(cur, fr) /\ FrameType(cur + 1, fr)
    <3> DEFINE o == stack[i].outs \cup {cur}
    <3>1. o \in SUBSET Points /\ o \subseteq 1 .. cur /\ o \subseteq 1 .. cur + 1
      BY <1>0, <2>1 DEF FrameType, Frames, Points
    <3>2. fr = [stack[i] EXCEPT !.outs = o]
      BY <2>1 DEF Frames
    <3> HIDE DEF o, fr
    <3>3. fr \in Frames /\ fr.kind = stack[i].kind /\ fr.ends = stack[i].ends
          /\ fr.entry = stack[i].entry /\ fr.outs = o
      BY <2>1, <3>1, <3>2, FrameOuts
    <3> QED
      BY <2>1, <3>1, <3>3 DEF FrameType
  <2>3. st = [stack EXCEPT ![i] = fr]
    OBVIOUS
  <2> HIDE DEF fr, st
  <2>4. st \in Seq(Frames) /\ Len(st) = Len(stack)
        /\ \A j \in 1 .. Len(stack) : st[j] = IF j = i THEN fr ELSE stack[j]
    BY <1>0, <2>2, <2>3
  <2> QED
    BY <1>0, <2>2, <2>4 DEF fr, st
<1>7. ASSUME NEW i \in 1 .. Len(stack), Try(i)
      PROVE  TypeInv'
  <2>1. Goto({cur}, cur + 1) \in SUBSET EdgeTypes(cur + 1)
    BY <1>0, GotoType
  <2> DEFINE st == [stack EXCEPT ![i].outs = @ \cup {cur}]
  <2>2. st \in Seq(Frames) /\ \A j \in 1 .. Len(st) : FrameType(cur + 1, st[j])
    BY <1>6
  <2>3. NewPoint(at[cur], Goto({cur}, cur + 1), st) /\ flow' = flow
        /\ UNCHANGED <<pos, live>>
    BY <1>7 DEF Try, Open, Walking
  <2> HIDE DEF st
  <2> QED
    BY <1>0, <2>1, <2>2, <2>3, NewPointType
<1>8. ASSUME Recover
      PROVE  TypeInv'
  <2>1. Len(stack) > 0 /\ flow' \in Flows /\ UNCHANGED <<pos, live>>
    BY <1>8 DEF Recover, Walking, Flows
  <2> DEFINE fr == [Top EXCEPT !.kind = "recovery", !.acc = at[cur],
                     !.all = Exits, !.ends = Falling]
  <2>2. Top \in Frames /\ FrameType(cur + 1, Top) /\ at[Top.entry] \in Envs
        /\ Top.entry \in 1 .. cur /\ Top.outs \subseteq 1 .. cur
    BY <1>8, <2>1, RestFacts DEF FrameType
  <2>4. Falling \subseteq 1 .. cur
    BY <1>0 DEF Falling
  <2>5. fr \in Frames /\ fr.kind = "recovery" /\ fr.entry = Top.entry
        /\ fr.outs = Top.outs /\ fr.ends = Falling
    <3> DEFINE l == Exits
    <3>1. "recovery" \in Kinds /\ Falling \in SUBSET Points
      BY <1>0, <2>4 DEF Kinds, Points
    <3>2. l \in BOOLEAN
      BY FlowFacts
    <3>3. fr = [Top EXCEPT !.kind = "recovery", !.acc = at[cur], !.all = l,
                           !.ends = Falling]
      OBVIOUS
    <3> HIDE DEF l, fr
    <3> QED
      BY <1>0, <2>2, <3>1, <3>2, <3>3 DEF Frames
  <2>6. FrameType(cur + 1, fr)
    BY <1>0, <2>2, <2>4, <2>5 DEF FrameType
  <2>7. Goto(Top.outs, cur + 1) \in SUBSET EdgeTypes(cur + 1)
    BY <1>0, <2>2, GotoType
  <2>8. NewPoint(at[Top.entry], Goto(Top.outs, cur + 1), Append(Rest, fr))
    BY <1>8 DEF Recover
  <2> HIDE DEF fr
  <2> QED
    BY <2>1, <2>2, <2>5, <2>6, <2>7, <2>8, ReplaceType, NewPointType
<1>9. ASSUME NEW i \in 1 .. Len(stack), Break(i)
      PROVE  TypeInv'
  <2> DEFINE st == [stack EXCEPT ![i].outs = @ \cup {cur}]
  <2>1. st \in Seq(Frames) /\ \A j \in 1 .. Len(st) : FrameType(cur, st[j])
    BY <1>6
  <2>2. stack' = st /\ flow' \in Flows /\ UNCHANGED <<phase, cur, at, edges, pos, live>>
    BY <1>9, FlowFacts DEF Break, Open, Walking
  <2> HIDE DEF st
  <2> QED
    BY <2>1, <2>2 DEF TypeInv, TypeOK, HeadInv, FrameType
<1>10. ASSUME NEW i \in 1 .. Len(stack), Continue(i)
       PROVE  TypeInv'
  <2>1. HeadOf(i) \in 1 .. cur
    BY <1>0, <1>10 DEF Continue, Innermost, HeadOf, FrameType, Frames, Points
  <2>2. Goto({cur}, HeadOf(i)) \in SUBSET EdgeTypes(cur)
    BY <1>0, <2>1, GotoType
  <2>3. /\ edges' = edges \cup Goto({cur}, HeadOf(i)) /\ flow' \in Flows
        /\ UNCHANGED <<phase, cur, at, stack, pos, live>>
    BY <1>10, FlowFacts DEF Continue, Open, Walking
  <2> QED
    BY <2>2, <2>3 DEF TypeInv, TypeOK, HeadInv, EdgeTypes
<1>11. ASSUME CloseLoop
       PROVE  TypeInv'
  <2>1. Len(stack) > 0 /\ flow' \in Flows /\ UNCHANGED <<pos, live>>
        /\ Top.kind \in {"loop", "for"}
    <3>1. Len(stack) > 0 /\ UNCHANGED <<pos, live>> /\ Top.kind \in {"loop", "for"}
      BY <1>11 DEF CloseLoop, Looping, Walking
    <3>2. Top.past \in BOOLEAN
      BY <3>1, RestFacts DEF Frames
    <3> QED
      BY <1>11, <3>1, <3>2, FlowFacts DEF CloseLoop
  <2>2. /\ Top \in Frames /\ at[Top.entry] \in Envs /\ Top.entry \in 1 .. cur
        /\ Top.outs \subseteq 1 .. cur /\ Top.entry + 1 \in 1 .. cur
    BY <1>0, <2>1, RestFacts DEF FrameType
  <2>3. Falling \subseteq 1 .. cur + 1 /\ Top.outs \subseteq 1 .. cur + 1
        /\ Top.entry + 1 \in 1 .. cur + 1 /\ cur + 1 \in 1 .. cur + 1
    BY <1>0, <2>2 DEF Falling
  <2>4. /\ Goto(Falling, Top.entry + 1) \in SUBSET EdgeTypes(cur + 1)
        /\ Goto(Top.outs, cur + 1) \in SUBSET EdgeTypes(cur + 1)
        /\ Goto({Top.entry + 1}, cur + 1) \in SUBSET EdgeTypes(cur + 1)
    BY <1>0, <2>3, GotoType
  <2>5. PICK E \in SUBSET EdgeTypes(cur + 1) : NewPoint(at[Top.entry], E, Rest)
    BY <1>11, <2>4 DEF CloseLoop
  <2> QED
    BY <2>1, <2>2, <2>5, PopType, NewPointType
<1>12. ASSUME Return
       PROVE  TypeInv'
  BY <1>12 DEF Return, Open, Walking, TypeInv, TypeOK, HeadInv, Flows
<1>13. ASSUME UNCHANGED walkVars, phase' \in {"walk", "rejected", "run"},
              pos' \in 1 .. cur, live' \in [Bindings -> SUBSET Fields]
       PROVE  TypeInv'
  BY <1>13 DEF walkVars, TypeInv, TypeOK, HeadInv
<1>14. ASSUME NEW e \in edges, Run(e)
       PROVE  TypeInv'
  <2>1. e.to \in 1 .. cur /\ e.ops \in SUBSET Ops
    BY DEF TypeInv, TypeOK
  <2>2. \A b \in Bindings, op \in e.ops : Effect(live[b], op) \in SUBSET Fields
    BY <2>1, EffectMonotone DEF TypeInv, TypeOK
  <2>3. \A b \in Bindings : (\E op \in e.ops : op.b = b) =>
           (CHOOSE op \in e.ops : TRUE) \in e.ops
    OBVIOUS
  <2>4. live' \in [Bindings -> SUBSET Fields]
    BY <1>14, <2>2, <2>3 DEF Run, TypeInv, TypeOK
  <2>5. pos' \in 1 .. cur /\ phase' = phase /\ UNCHANGED walkVars
    BY <1>14, <2>1 DEF Run
  <2> QED
    BY <1>13, <2>4, <2>5 DEF TypeInv, TypeOK
<1>15. CASE Branching
  BY <1>2, <1>3, <1>4, <1>15 DEF Branching, OpenBranch, Open, Walking, Flows
<1>16. CASE Handling
  BY <1>5, <1>7, <1>8, <1>16 DEF Handling
<1>17. ASSUME Report, UNCHANGED <<pos, live>>
       PROVE  TypeInv'
  BY <1>13, <1>17 DEF Report, TypeInv, TypeOK
<1>18. CASE LoopStep
  BY <1>2, <1>9, <1>10, <1>11, <1>17, <1>18
     DEF LoopStep, OpenLoop, Open, Walking, RejectLoop, Looping, Flows
<1>19. CASE OpenAnd
  BY <1>2, <1>19 DEF OpenAnd, Open, Walking, Flows
<1>20. CASE Finish
  BY <1>13, <1>20 DEF Finish, Walking, TypeInv, TypeOK
<1>21. CASE RejectExit \/ \E op \in Ops : Reject(op)
  BY <1>17, <1>21 DEF RejectExit, Reject, Open, Walking
<1>22. CASE UNCHANGED vars
  BY <1>13, <1>22 DEF vars, TypeInv, TypeOK
<1> QED
  BY <1>1, <1>4, <1>12, <1>14, <1>15, <1>16, <1>18, <1>19, <1>20, <1>21, <1>22
     DEF Next

\* The body is empty and every construct is closed.
LEMMA TypeInit ==
    ASSUME Init
    PROVE  TypeInv
<1>1. 1 \in Points /\ stack = <<>> /\ Len(stack) = 0 /\ stack \in Seq(Frames)
  BY ModeAssumption DEF Init, Points
<1>2. Uninit \in States /\ Valid \in States
  BY DEF States
<1>3. at \in [Points -> Envs] /\ live \in [Bindings -> SUBSET Fields]
  BY <1>2 DEF Init, Envs
<1>4. /\ phase = "walk" /\ cur = 1 /\ pos = 1 /\ edges = {} /\ flow \in Flows
  BY DEF Init, Flows
<1> QED
  BY <1>1, <1>3, <1>4 DEF TypeInv, TypeOK, HeadInv

\* Whatever a body does, the walk keeps a well-formed environment at every
\* point: glb and the field transitions never produce a PartialInit that
\* names every field, and frames, edges and execution stay inside the body.
THEOREM ModeTypeCorrect == Spec => []TypeOK
<1>1. Init => TypeInv
  BY TypeInit
<1>2. TypeInv /\ [Next]_vars => TypeInv'
  BY TypeStep
<1>3. TypeInv => TypeOK
  BY DEF TypeInv
<1> QED
  BY <1>1, <1>2, <1>3, PTL DEF Spec
-----------------------------------------------------------------------------
(***************************************************************************)
(* Soundness.  The environment at the end of an edge claims no more than   *)
(* what its operation leaves of the environment at its start; the join a   *)
(* frame has collected claims no more than each arm that falls through     *)
(* provides; a jump leaves where its target's environment holds; no block  *)
(* that falls through is taken for an exit; and what the environment of    *)
(* the point of execution claims is there.                                 *)
(***************************************************************************)
EdgeSound(a, e) ==
    /\ \A o1, o2 \in e.ops : o1 = o2
    /\ \A op \in e.ops :
          /\ Needs(op) \subseteq ValidSet(a[e.from][op.b])
          /\ ValidSet(a[e.to][op.b]) \subseteq
                Effect(ValidSet(a[e.from][op.b]), op)
    /\ \A b \in Bindings : (\A op \in e.ops : op.b # b) =>
          ValidSet(a[e.to][b]) \subseteq ValidSet(a[e.from][b])

FrameSound(a, fr) ==
    /\ \A p \in fr.ends : Within(fr.acc, a[p])
    /\ fr.all \/ fr.kind = "if" => fr.ends = {}
    /\ \A p \in fr.outs : Within(a[fr.entry], a[p])
    /\ fr.kind \in {"loop", "for"} => a[fr.entry + 1] = a[fr.entry]

SoundInv ==
    /\ \A e \in edges : EdgeSound(at, e)
    /\ \A i \in 1 .. Len(stack) : FrameSound(at, stack[i])
    /\ \A b \in Bindings : ValidSet(at[pos][b]) \subseteq live[b]

\* Edges to a point are sound when it is below every one they leave.
LEMMA GotoSound ==
    ASSUME NEW a, NEW S, NEW q, \A p \in S : Within(a[q], a[p])
    PROVE  \A e \in Goto(S, q) : EdgeSound(a, e)
BY DEF Goto, Edge, EdgeSound, Within

\* Environments at points that are reached do not change.
LEMMA OldPoints ==
    ASSUME TypeInv, cur + 1 \in Points, NEW e \in Envs, NEW a,
           a = [at EXCEPT ![cur + 1] = e]
    PROVE  /\ a[cur + 1] = e /\ \A p \in 1 .. cur : a[p] = at[p]
           /\ \A ed \in EdgeTypes(cur) : EdgeSound(at, ed) => EdgeSound(a, ed)
           /\ \A fr : FrameType(cur, fr) /\ FrameSound(at, fr) => FrameSound(a, fr)
<1>1. at \in [Points -> Envs] /\ cur \in 1 .. MaxPoints /\ MaxPoints \in Nat
  BY TypeInvFrames
<1>2. a[cur + 1] = e /\ \A p \in 1 .. cur : a[p] = at[p]
  BY <1>1 DEF Points
<1>3. ASSUME NEW ed \in EdgeTypes(cur), EdgeSound(at, ed)
      PROVE  EdgeSound(a, ed)
  <2>1. a[ed.from] = at[ed.from] /\ a[ed.to] = at[ed.to]
    BY <1>2 DEF EdgeTypes
  <2> QED
    BY <1>3, <2>1 DEF EdgeSound
<1>4. ASSUME NEW fr, FrameType(cur, fr), FrameSound(at, fr)
      PROVE  FrameSound(a, fr)
  <2>1. /\ fr.entry \in 1 .. cur /\ fr.outs \subseteq 1 .. cur
        /\ fr.ends \subseteq 1 .. cur
        /\ fr.kind \in {"loop", "for"} => fr.entry + 1 \in 1 .. cur
    BY <1>1, <1>4 DEF FrameType, Frames, Points
  <2>2. /\ a[fr.entry] = at[fr.entry]
        /\ \A p \in fr.outs \cup fr.ends : a[p] = at[p]
        /\ fr.kind \in {"loop", "for"} => a[fr.entry + 1] = at[fr.entry + 1]
    BY <1>2, <2>1
  <2> QED
    BY <1>4, <2>2 DEF FrameSound
<1> QED
  BY <1>2, <1>3, <1>4

\* A step to a new point is sound if its edges and open constructs are.
LEMMA NewPointSound ==
    ASSUME TypeInv, SoundInv, NEW e \in Envs, NEW E, NEW st, NEW a,
           a = [at EXCEPT ![cur + 1] = e], NewPoint(e, E, st), Len(st) \in Nat,
           \A ed \in E : EdgeSound(a, ed),
           \A i \in 1 .. Len(st) : FrameSound(a, st[i]),
           UNCHANGED <<pos, live>>
    PROVE  SoundInv'
<1>1. cur \in 1 .. MaxPoints /\ MaxPoints \in Nat /\ pos \in 1 .. cur
  BY TypeInvFrames DEF TypeInv, TypeOK
<1>2. cur + 1 \in Points /\ at' = a /\ edges' = edges \cup E /\ stack' = st
  BY <1>1 DEF NewPoint, Points
<1>3. edges \subseteq EdgeTypes(cur)
  BY DEF TypeInv, TypeOK, EdgeTypes
<1>4. /\ \A p \in 1 .. cur : a[p] = at[p]
      /\ \A ed \in EdgeTypes(cur) : EdgeSound(at, ed) => EdgeSound(a, ed)
  BY <1>2, OldPoints
<1>5. \A ed \in edges' : EdgeSound(at', ed)
  BY <1>2, <1>3, <1>4 DEF SoundInv
<1>6. \A b \in Bindings : ValidSet(at'[pos'][b]) \subseteq live'[b]
  BY <1>1, <1>2, <1>4 DEF SoundInv
<1> QED
  BY <1>2, <1>5, <1>6 DEF SoundInv

\* A construct that stays open through a step to a new point is sound.
LEMMA KeptFrames ==
    ASSUME TypeInv, SoundInv, cur + 1 \in Points, NEW e \in Envs, NEW a,
           a = [at EXCEPT ![cur + 1] = e]
    PROVE  \A i \in 1 .. Len(stack) : FrameSound(a, stack[i])
<1>1. \A i \in 1 .. Len(stack) : FrameType(cur, stack[i])
  BY TypeInvFrames
<1>2. \A fr : FrameType(cur, fr) /\ FrameSound(at, fr) => FrameSound(a, fr)
  BY OldPoints
<1> QED
  BY <1>1, <1>2 DEF SoundInv

\* The walk takes no block that control falls through for an exit.
ClearInv ==
    /\ flow # "slips"
    /\ \A i \in 1 .. Len(stack) : stack[i].past = FALSE

\* A point that control falls through is not at the end of an exit.
LEMMA ClearFacts ==
    ASSUME ClearInv
    PROVE  Exits => Falling = {}
BY DEF ClearInv, Exits, Falls, Falling

\* What the join of the arms claims, every arm that falls through provides.
LEMMA JoinedSound ==
    ASSUME TypeInv, ClearInv, NEW fr \in Frames, FrameSound(at, fr), fr.kind # "if"
    PROVE  \A p \in fr.ends \cup Falling : Within(Joined(fr), at[p])
<1>1. at[cur] \in Envs /\ fr.acc \in Envs /\ fr.all \in BOOLEAN
  BY TypeInvFrames DEF Frames
<1>2. /\ Within(Merge(at[cur], fr.acc), at[cur])
      /\ Within(Merge(at[cur], fr.acc), fr.acc)
  BY <1>1, MergeFacts DEF Within
<1>3. Within(at[cur], at[cur])
  BY DEF Within
<1>4. \A p \in fr.ends : Within(fr.acc, at[p])
  BY DEF FrameSound
<1>5. fr.all => fr.ends = {}
  BY DEF FrameSound
<1>6. CASE Exits
  <2>1. Falling = {}
    BY <1>6, ClearFacts
  <2>2. CASE fr.all
    BY <1>5, <2>1, <2>2
  <2>3. CASE ~fr.all
    BY <1>4, <1>6, <2>1, <2>3 DEF Joined
  <2> QED
    BY <2>2, <2>3
<1>7. CASE ~Exits
  <2>1. \A p \in Falling : p = cur
    BY DEF Falling
  <2>2. CASE fr.all
    BY <1>3, <1>5, <1>7, <2>1, <2>2 DEF Joined
  <2>3. CASE ~fr.all
    <3>1. Joined(fr) = Merge(at[cur], fr.acc)
      BY <1>7, <2>3 DEF Joined
    <3>2. \A p \in fr.ends : Within(Merge(at[cur], fr.acc), at[p])
      BY <1>2, <1>4 DEF Within
    <3> QED
      BY <1>2, <2>1, <3>1, <3>2
  <2> QED
    BY <2>2, <2>3
<1> QED
  BY <1>6, <1>7

\* A construct is closed, and control comes to the new point from the points
\* of S, where its environment holds.
LEMMA CloseSound ==
    ASSUME TypeInv, SoundInv, Len(stack) > 0, UNCHANGED <<pos, live>>,
           NEW e \in Envs, NEW S \in SUBSET (1 .. cur),
           \A p \in S : Within(e, at[p]), NewPoint(e, Goto(S, cur + 1), Rest)
    PROVE  SoundInv'
<1> DEFINE a == [at EXCEPT ![cur + 1] = e]
<1>1. cur \in 1 .. MaxPoints /\ MaxPoints \in Nat
  BY TypeInvFrames
<1>2. Len(Rest) \in Nat /\ \A i \in 1 .. Len(Rest) : i \in 1 .. Len(stack) /\ Rest[i] = stack[i]
  BY RestFacts, StackFacts
<1>3. cur + 1 \in Points
  BY <1>1, <1>2 DEF NewPoint, Points
<1> HIDE DEF a
<1>4. a[cur + 1] = e /\ \A p \in 1 .. cur : a[p] = at[p]
  BY <1>3, OldPoints DEF a
<1>5. \A ed \in Goto(S, cur + 1) : EdgeSound(a, ed)
  <2>1. \A p \in S : Within(a[cur + 1], a[p])
    BY <1>4
  <2> QED
    BY <2>1, GotoSound
<1>6. \A i \in 1 .. Len(stack) : FrameSound(a, stack[i])
  BY <1>3, KeptFrames DEF a
<1>7. \A i \in 1 .. Len(Rest) : FrameSound(a, Rest[i])
  BY <1>2, <1>6
<1> QED
  BY <1>2, <1>5, <1>7, NewPointSound DEF a

\* A construct is opened at a new point, with the environment of the old one.
LEMMA OpenSound ==
    ASSUME TypeInv, SoundInv, UNCHANGED <<pos, live>>, NEW k \in Kinds,
           NewPoint(at[cur], Goto({cur}, cur + 1), Append(stack, Frame(k)))
    PROVE  SoundInv'
<1>1. cur \in 1 .. MaxPoints /\ MaxPoints \in Nat /\ at[cur] \in Envs
  BY TypeInvFrames
<1>e. PICK e \in Envs : e = at[cur]
  BY <1>1
<1> DEFINE st == Append(stack, Frame(k))
           a == [at EXCEPT ![cur + 1] = e]
<1>2. Frame(k) \in Frames
  BY FrameOfType
<1>3. /\ Len(stack) \in Nat /\ Len(st) = Len(stack) + 1
      /\ \A i \in 1 .. Len(stack) : st[i] = stack[i]
      /\ st[Len(stack) + 1] = Frame(k)
  BY <1>2, StackFacts
<1> HIDE DEF a, st
<1>4. cur + 1 \in Points
  BY <1>1, <1>3 DEF NewPoint, Points, st
<1>5. a[cur + 1] = at[cur] /\ a[cur] = at[cur]
  <2>1. a[cur + 1] = e /\ \A p \in 1 .. cur : a[p] = at[p]
    BY <1>4, OldPoints DEF a
  <2> QED
    BY <1>1, <1>e, <2>1
<1>6. \A ed \in Goto({cur}, cur + 1) : EdgeSound(a, ed)
  <2>1. \A p \in {cur} : Within(a[cur + 1], a[p])
    BY <1>5 DEF Within
  <2> QED
    BY <2>1, GotoSound
<1>7. FrameSound(a, Frame(k))
  BY <1>5 DEF Frame, FrameSound
<1>8. \A i \in 1 .. Len(stack) : FrameSound(a, stack[i])
  BY <1>4, KeptFrames DEF a
<1>9. \A i \in 1 .. Len(st) : FrameSound(a, st[i])
  <2>1. \A i \in 1 .. Len(st) : i \in 1 .. Len(stack) \/ i = Len(stack) + 1
    BY <1>3
  <2> QED
    BY <1>3, <1>7, <1>8, <2>1
<1>10. Len(st) \in Nat /\ NewPoint(e, Goto({cur}, cur + 1), st)
  BY <1>3, <1>e DEF st
<1> QED
  BY <1>6, <1>9, <1>10, NewPointSound DEF a

\* The innermost construct goes on with another arm, which starts with the
\* environment the construct was entered with.
LEMMA ArmSound ==
    ASSUME TypeInv, SoundInv, Len(stack) > 0, UNCHANGED <<pos, live>>,
           NEW fr \in Frames, FrameType(cur, fr), FrameSound(at, fr),
           NEW S \in SUBSET (1 .. cur),
           \A p \in S : Within(at[Top.entry], at[p]),
           NewPoint(at[Top.entry], Goto(S, cur + 1), Append(Rest, fr))
    PROVE  SoundInv'
<1>1. cur \in 1 .. MaxPoints /\ MaxPoints \in Nat /\ at[Top.entry] \in Envs
  BY TypeInvFrames, RestFacts
<1>e. PICK e \in Envs : e = at[Top.entry]
  BY <1>1
<1> DEFINE st == Append(Rest, fr)
           a == [at EXCEPT ![cur + 1] = e]
<1>2. /\ Len(stack) \in Nat /\ Len(st) = Len(stack) /\ Len(Rest) = Len(stack) - 1
      /\ \A i \in 1 .. Len(Rest) : i \in 1 .. Len(stack) /\ st[i] = stack[i]
      /\ st[Len(stack)] = fr
  BY StackFacts, RestFacts
<1> HIDE DEF a, st
<1>3. cur + 1 \in Points
  BY <1>1, <1>2 DEF NewPoint, Points, st
<1>4. a[cur + 1] = at[Top.entry] /\ \A p \in 1 .. cur : a[p] = at[p]
  <2>1. a[cur + 1] = e /\ \A p \in 1 .. cur : a[p] = at[p]
    BY <1>3, OldPoints DEF a
  <2> QED
    BY <1>e, <2>1
<1>5. \A ed \in Goto(S, cur + 1) : EdgeSound(a, ed)
  <2>1. \A p \in S : Within(a[cur + 1], a[p])
    BY <1>4
  <2> QED
    BY <2>1, GotoSound
<1>6. FrameSound(a, fr)
  BY <1>3, OldPoints DEF a
<1>7. \A i \in 1 .. Len(stack) : FrameSound(a, stack[i])
  BY <1>3, KeptFrames DEF a
<1>8. \A i \in 1 .. Len(st) : FrameSound(a, st[i])
  <2>1. \A i \in 1 .. Len(st) : i \in 1 .. Len(Rest) \/ i = Len(stack)
    BY <1>2
  <2> QED
    BY <1>2, <1>6, <1>7, <2>1
<1>9. Len(st) \in Nat /\ NewPoint(e, Goto(S, cur + 1), st)
  BY <1>2, <1>e DEF st
<1> QED
  BY <1>5, <1>8, <1>9, NewPointSound DEF a

\* Every step of a body that keeps clear of the oversights keeps the
\* environments sound.
LEMMA SoundStep ==
    ASSUME Avoids = Oversights, TypeInv, SoundInv, ClearInv, [Next]_vars
    PROVE  SoundInv'
<1>0. /\ cur \in 1 .. MaxPoints /\ MaxPoints \in Nat /\ cur \in Nat
      /\ at \in [Points -> Envs] /\ at[cur] \in Envs
      /\ stack \in Seq(Frames) /\ Len(stack) \in Nat
      /\ \A i \in 1 .. Len(stack) : FrameType(cur, stack[i])
      /\ \A i \in 1 .. Len(stack) : FrameSound(at, stack[i])
      /\ \A i \in 1 .. Len(stack) : at[stack[i].entry] \in Envs
      /\ Falling \subseteq 1 .. cur /\ \A p \in Falling : p = cur
  BY TypeInvFrames DEF SoundInv, Falling
<1>1. ASSUME Len(stack) > 0
      PROVE  /\ Top \in Frames /\ FrameType(cur, Top) /\ FrameSound(at, Top)
             /\ at[Top.entry] \in Envs /\ Top.entry \in 1 .. cur
             /\ Top.outs \subseteq 1 .. cur /\ Top.ends \subseteq 1 .. cur
  <2>1. Top \in Frames /\ FrameType(cur, Top) /\ at[Top.entry] \in Envs
        /\ Top.entry \in 1 .. cur
    BY <1>1, RestFacts
  <2>2. FrameSound(at, Top)
    BY <1>0, <1>1 DEF Top
  <2> QED
    BY <2>1, <2>2 DEF FrameType
<1>2. ASSUME NEW op \in Ops, Apply(op)
      PROVE  SoundInv'
  <2>1. op.b \in Bindings /\ at[cur][op.b] \in States /\ Admits(at[cur][op.b], op)
    BY <1>0, <1>2, OpFacts DEF Envs, Apply
  <2>2. /\ Post(at[cur][op.b], op) \in States
        /\ Needs(op) \subseteq ValidSet(at[cur][op.b])
        /\ ValidSet(Post(at[cur][op.b], op)) \subseteq
              Effect(ValidSet(at[cur][op.b]), op)
    <3>1. op.mode = "update" => Needs(op) \subseteq ValidSet(at[cur][op.b])
      BY <1>2 DEF Apply, Oversights
    <3> QED
      BY <2>1, <3>1, PostFacts
  <2>3. PICK e \in Envs : e = [at[cur] EXCEPT ![op.b] = Post(at[cur][op.b], op)]
    BY <1>0, <2>1, <2>2 DEF Envs
  <2> DEFINE a == [at EXCEPT ![cur + 1] = e]
             E == {Edge(cur, {op}, cur + 1)}
  <2>4. NewPoint(e, E, stack) /\ UNCHANGED <<pos, live>>
    BY <1>2, <2>3 DEF Apply, Open, Walking
  <2>5. cur + 1 \in Points
    BY <1>0, <2>4 DEF NewPoint, Points
  <2>6. a[cur + 1] = e /\ a[cur] = at[cur]
    BY <1>0, <2>5 DEF Points
  <2>7. \A i \in 1 .. Len(stack) : FrameSound(a, stack[i])
    BY <2>5, KeptFrames
  <2>8. \A ed \in E : EdgeSound(a, ed)
    <3>1. e[op.b] = Post(at[cur][op.b], op)
          /\ \A b \in Bindings \ {op.b} : e[b] = at[cur][b]
      BY <1>0, <2>1, <2>3 DEF Envs
    <3> HIDE DEF a
    <3>2. EdgeSound(a, Edge(cur, {op}, cur + 1))
      BY <2>1, <2>2, <2>6, <3>1 DEF EdgeSound, Edge
    <3> QED
      BY <3>2
  <2> HIDE DEF E
  <2> QED
    BY <1>0, <2>4, <2>7, <2>8, NewPointSound
<1>3. ASSUME NextArm
      PROVE  SoundInv'
  <2>1. Len(stack) > 0 /\ UNCHANGED <<pos, live>>
        /\ Top.kind \in {"if", "match", "partial"}
    BY <1>3 DEF NextArm, Walking
  <2> DEFINE k == IF Top.kind = "if" THEN "else" ELSE Top.kind
             c == IF Top.kind = "if" THEN at[cur] ELSE Joined(Top)
             l == Top.all /\ Exits
             n == Top.ends \cup Falling
  <2>2. /\ k \in Kinds \ {"if", "loop", "for"} /\ c \in Envs
        /\ n \in SUBSET Points /\ n \subseteq 1 .. cur
    <3>1. k \in Kinds \ {"if", "loop", "for"}
      BY <2>1 DEF Kinds
    <3>2. c \in Envs
      BY <1>0, <1>1, <2>1, JoinedType
    <3>3. n \subseteq 1 .. cur
      BY <1>0, <1>1, <2>1
    <3>4. 1 .. cur \subseteq Points
      BY <1>0 DEF Points
    <3> QED
      BY <3>1, <3>2, <3>3, <3>4
  <2>3. l \in BOOLEAN
    OBVIOUS
  <2>4. l => n = {}
    BY <1>1, <2>1, ClearFacts DEF FrameSound
  <2>5. \A p \in n : Within(c, at[p])
    <3>1. CASE Top.kind = "if"
      BY <1>0, <1>1, <2>1, <3>1 DEF FrameSound, Within
    <3>2. CASE Top.kind # "if"
      BY <1>1, <2>1, <3>2, JoinedSound
    <3> QED
      BY <3>1, <3>2
  <2>6. PICK fr : fr = [Top EXCEPT !.kind = k, !.acc = c, !.all = l, !.ends = n]
    OBVIOUS
  <2>7. NewPoint(at[Top.entry], Goto({Top.entry}, cur + 1), Append(Rest, fr))
    BY <1>3, <2>6 DEF NextArm
  <2> HIDE DEF k, c, l, n
  <2>8. /\ fr \in Frames /\ fr.kind = k /\ fr.acc = c /\ fr.entry = Top.entry
        /\ fr.outs = Top.outs /\ fr.ends = n
    BY <1>1, <2>1, <2>2, <2>3, <2>6 DEF Frames
  <2>9. fr.all = l
    BY <1>1, <2>1, <2>6 DEF Frames
  <2>10. FrameType(cur, fr)
    BY <1>1, <2>1, <2>2, <2>8 DEF FrameType
  <2>11. FrameSound(at, fr)
    BY <1>1, <2>1, <2>2, <2>4, <2>5, <2>8, <2>9 DEF FrameSound
  <2>12. \A p \in {Top.entry} : Within(at[Top.entry], at[p])
    BY DEF Within
  <2> QED
    BY <1>1, <2>1, <2>7, <2>8, <2>10, <2>11, <2>12, ArmSound
<1>4. ASSUME CloseBranch \/ CloseIf \/ CloseAnd
      PROVE  SoundInv'
  <2>1. Len(stack) > 0 /\ UNCHANGED <<pos, live>>
    BY <1>4 DEF CloseBranch, CloseIf, CloseAnd, Walking
  <2>2. PICK e \in Envs, S \in SUBSET (1 .. cur) :
           /\ NewPoint(e, Goto(S, cur + 1), Rest)
           /\ \A p \in S : Within(e, at[p])
    <3>1. CASE CloseBranch
      <4>1. Joined(Top) \in Envs
        BY <1>1, <2>1, JoinedType
      <4>2. \A p \in Top.ends \cup Falling : Within(Joined(Top), at[p])
        BY <1>1, <2>1, <3>1, JoinedSound DEF CloseBranch
      <4>3. \A p \in NoArm : p \in 1 .. cur /\ Within(Joined(Top), at[p])
        BY <1>1, <2>1, <3>1 DEF CloseBranch, NoArm, Oversights
      <4> DEFINE S == Top.ends \cup Falling \cup NoArm
      <4>4. S \in SUBSET (1 .. cur) /\ \A p \in S : Within(Joined(Top), at[p])
        BY <1>0, <1>1, <2>1, <4>2, <4>3
      <4>5. NewPoint(Joined(Top), Goto(S, cur + 1), Rest)
        BY <3>1 DEF CloseBranch
      <4> HIDE DEF S
      <4> QED
        BY <4>1, <4>4, <4>5
    <3>2. CASE CloseIf
      <4> DEFINE e == IF Exits THEN at[Top.entry]
                                        ELSE Merge(at[Top.entry], at[cur])
      <4>1. /\ Merge(at[Top.entry], at[cur]) \in Envs
            /\ Within(Merge(at[Top.entry], at[cur]), at[Top.entry])
            /\ Within(Merge(at[Top.entry], at[cur]), at[cur])
        BY <1>0, <1>1, <2>1, MergeFacts DEF Within
      <4>2. e \in Envs /\ Within(e, at[Top.entry])
        BY <1>1, <2>1, <4>1 DEF Within
      <4>3. \A p \in Falling : Within(e, at[p])
        BY <1>0, <4>1, ClearFacts
      <4> QED
        BY <1>0, <1>1, <2>1, <3>2, <4>2, <4>3 DEF CloseIf
    <3>3. CASE CloseAnd
      <4>1. \A p \in {Top.entry} \cup Falling : Within(at[cur], at[p])
        BY <1>0, <3>3 DEF CloseAnd, Within, Oversights
      <4>2. {Top.entry} \cup Falling \in SUBSET (1 .. cur)
        BY <1>0, <1>1, <2>1
      <4> QED
        BY <1>0, <3>3, <4>1, <4>2 DEF CloseAnd
    <3> QED
      BY <1>4, <3>1, <3>2, <3>3
  <2> QED
    BY <2>1, <2>2, CloseSound
<1>5. ASSUME NEW i \in 1 .. Len(stack), Within(at[stack[i].entry], at[cur]),
             NEW j \in 1 .. Len(stack)
      PROVE  LET fr == [stack EXCEPT ![i].outs = @ \cup {cur}][j]
             IN  FrameSound(at, fr)
  <2> DEFINE fr == [stack[i] EXCEPT !.outs = stack[i].outs \cup {cur}]
  <2>1. [stack EXCEPT ![i].outs = @ \cup {cur}][j] = IF j = i THEN fr ELSE stack[j]
    BY <1>0
  <2>2. stack[i] \in Frames /\ FrameSound(at, stack[i])
    BY <1>0
  <2>3. FrameSound(at, fr)
    BY <1>5, <2>2 DEF FrameSound, Frames
  <2> HIDE DEF fr
  <2> QED
    BY <1>0, <2>1, <2>3
<1>6. ASSUME OpenHandle
      PROVE  SoundInv'
  <2>1. Frame("body") \in Frames
    BY FrameOfType DEF Kinds
  <2>2. FrameSound(at, Frame("body"))
    BY DEF FrameSound, Frame
  <2>3. \A i \in 1 .. Len(stack') : FrameSound(at, stack'[i])
    <3>1. \A i \in 1 .. Len(stack) + 1 : i \in 1 .. Len(stack) \/ i = Len(stack) + 1
      BY <1>0
    <3> QED
      BY <1>0, <1>6, <2>1, <2>2, <3>1, StackFacts DEF OpenHandle
  <2> QED
    BY <1>6, <2>3 DEF OpenHandle, Open, Walking, SoundInv
<1>7. ASSUME NEW i \in 1 .. Len(stack), Try(i)
      PROVE  SoundInv'
  <2>1. Within(at[stack[i].entry], at[cur]) /\ UNCHANGED <<pos, live>>
    BY <1>7 DEF Try, Oversights, Open, Walking
  <2>2. PICK st : st = [stack EXCEPT ![i].outs = @ \cup {cur}]
    OBVIOUS
  <2>3. Len(st) = Len(stack)
    BY <1>0, <2>2
  <2>4. \A j \in 1 .. Len(stack) : FrameSound(at, st[j])
    BY <1>5, <2>1, <2>2
  <2>5. \A j \in 1 .. Len(stack) : FrameType(cur, st[j])
    <3>1. stack[i] \in Frames /\ FrameType(cur, stack[i])
      BY <1>0
    <3> DEFINE fr == [stack[i] EXCEPT !.outs = stack[i].outs \cup {cur}]
    <3>2. stack[i].outs \cup {cur} \in SUBSET Points
          /\ stack[i].outs \cup {cur} \subseteq 1 .. cur
      BY <1>0, <3>1 DEF FrameType, Frames, Points
    <3>3. fr \in Frames /\ fr.kind = stack[i].kind /\ fr.ends = stack[i].ends
          /\ fr.entry = stack[i].entry /\ fr.outs = stack[i].outs \cup {cur}
      BY <3>1, <3>2, FrameOuts
    <3>4. FrameType(cur, fr)
      BY <3>1, <3>2, <3>3 DEF FrameType
    <3>5. \A j \in 1 .. Len(stack) : st[j] = IF j = i THEN fr ELSE stack[j]
      BY <1>0, <2>2
    <3> HIDE DEF fr
    <3> QED
      BY <1>0, <3>4, <3>5
  <2>6. PICK e \in Envs : e = at[cur]
    BY <1>0
  <2> DEFINE a == [at EXCEPT ![cur + 1] = e]
  <2>7. NewPoint(e, Goto({cur}, cur + 1), st)
    BY <1>7, <2>2, <2>6 DEF Try
  <2>8. cur + 1 \in Points
    BY <1>0, <2>3, <2>7 DEF NewPoint, Points
  <2>9. a[cur + 1] = e /\ a[cur] = e
    BY <1>0, <2>6, <2>8 DEF Points
  <2> HIDE DEF a
  <2>10. \A j \in 1 .. Len(st) : FrameSound(a, st[j])
    BY <2>3, <2>4, <2>5, <2>8, OldPoints DEF a
  <2>11. \A ed \in Goto({cur}, cur + 1) : EdgeSound(a, ed)
    <3>1. \A p \in {cur} : Within(a[cur + 1], a[p])
      BY <2>9 DEF Within
    <3> QED
      BY <3>1, GotoSound
  <2>12. Len(st) \in Nat
    BY <1>0, <2>3
  <2> QED
    BY <2>1, <2>7, <2>10, <2>11, <2>12, NewPointSound DEF a
<1>8. ASSUME Recover
      PROVE  SoundInv'
  <2>1. Len(stack) > 0 /\ UNCHANGED <<pos, live>>
    BY <1>8 DEF Recover, Walking
  <2> DEFINE l == Exits
  <2>2. l \in BOOLEAN /\ "recovery" \in Kinds /\ Falling \in SUBSET Points
    BY <1>0, FlowFacts DEF Kinds, Points
  <2>3. l => Falling = {}
    BY ClearFacts
  <2>4. PICK fr : fr = [Top EXCEPT !.kind = "recovery", !.acc = at[cur], !.all = l,
                                   !.ends = Falling]
    OBVIOUS
  <2>5. NewPoint(at[Top.entry], Goto(Top.outs, cur + 1), Append(Rest, fr))
    BY <1>8, <2>4 DEF Recover
  <2> HIDE DEF l
  <2>6. /\ fr \in Frames /\ fr.kind = "recovery" /\ fr.acc = at[cur]
        /\ fr.entry = Top.entry /\ fr.outs = Top.outs /\ fr.ends = Falling
    BY <1>0, <1>1, <2>1, <2>2, <2>4 DEF Frames
  <2>7. fr.all = l
    BY <1>1, <2>1, <2>4 DEF Frames
  <2>8. FrameType(cur, fr)
    BY <1>0, <1>1, <2>1, <2>6 DEF FrameType
  <2>9. FrameSound(at, fr)
    BY <1>0, <1>1, <2>1, <2>3, <2>6, <2>7 DEF FrameSound, Within
  <2>10. \A p \in Top.outs : Within(at[Top.entry], at[p])
    BY <1>1, <2>1 DEF FrameSound
  <2> QED
    BY <1>1, <2>1, <2>5, <2>6, <2>8, <2>9, <2>10, ArmSound
<1>9. ASSUME NEW i \in 1 .. Len(stack), Break(i)
      PROVE  SoundInv'
  <2>1. Within(at[stack[i].entry], at[cur])
    BY <1>9 DEF Break, Oversights
  <2>2. stack' = [stack EXCEPT ![i].outs = @ \cup {cur}]
        /\ UNCHANGED <<phase, cur, at, edges, pos, live>>
    BY <1>9 DEF Break, Open, Walking
  <2>3. \A j \in 1 .. Len(stack) : FrameSound(at, stack'[j])
    BY <1>5, <2>1, <2>2
  <2>4. Len(stack') = Len(stack)
    BY <1>0, <2>2
  <2> QED
    BY <2>2, <2>3, <2>4 DEF SoundInv
<1>10. ASSUME NEW i \in 1 .. Len(stack), Continue(i)
       PROVE  SoundInv'
  <2>1. Within(at[stack[i].entry], at[cur]) /\ stack[i].kind \in {"loop", "for"}
    BY <1>10 DEF Continue, Oversights, Innermost
  <2>2. at[HeadOf(i)] = at[stack[i].entry]
    BY <1>0, <2>1 DEF FrameSound, HeadOf
  <2>3. \A ed \in Goto({cur}, HeadOf(i)) : EdgeSound(at, ed)
    <3>1. \A p \in {cur} : Within(at[HeadOf(i)], at[p])
      BY <2>1, <2>2
    <3> QED
      BY <3>1, GotoSound
  <2>4. edges' = edges \cup Goto({cur}, HeadOf(i))
        /\ UNCHANGED <<phase, cur, at, stack, pos, live>>
    BY <1>10 DEF Continue, Open, Walking
  <2> QED
    BY <2>3, <2>4 DEF SoundInv
<1>11. ASSUME CloseLoop
       PROVE  SoundInv'
  <2>1. Len(stack) > 0 /\ UNCHANGED <<pos, live>> /\ Top.kind \in {"loop", "for"}
        /\ at[cur] = at[Top.entry]
    BY <1>11 DEF CloseLoop, Looping, Walking
  <2>2. at[Top.entry + 1] = at[Top.entry] /\ Top.entry + 1 \in 1 .. cur
    BY <1>0, <1>1, <2>1 DEF FrameSound, FrameType
  <2>3. PICK e \in Envs : e = at[Top.entry]
    BY <1>1, <2>1
  <2> DEFINE a == [at EXCEPT ![cur + 1] = e]
             E == Goto(Falling, Top.entry + 1) \cup Goto(Top.outs, cur + 1) \cup
                  (IF Top.kind = "for" THEN Goto({Top.entry + 1}, cur + 1) ELSE {})
  <2>4. NewPoint(e, E, Rest)
    BY <1>11, <2>3 DEF CloseLoop
  <2> HIDE DEF a
  <2>5. Len(Rest) \in Nat
        /\ \A i \in 1 .. Len(Rest) : i \in 1 .. Len(stack) /\ Rest[i] = stack[i]
    BY <2>1, RestFacts, StackFacts
  <2>6. cur + 1 \in Points
    BY <1>0, <2>4, <2>5 DEF NewPoint, Points
  <2>7. a[cur + 1] = e /\ \A p \in 1 .. cur : a[p] = at[p]
    BY <2>6, OldPoints DEF a
  <2>8. \A ed \in E : EdgeSound(a, ed)
    <3>1. \A p \in Falling : Within(a[Top.entry + 1], a[p])
      BY <1>0, <2>1, <2>2, <2>7 DEF Within
    <3>2. \A p \in Top.outs : Within(a[cur + 1], a[p])
      BY <1>1, <2>1, <2>3, <2>7 DEF FrameSound
    <3>3. \A p \in {Top.entry + 1} : Within(a[cur + 1], a[p])
      BY <2>2, <2>3, <2>7 DEF Within
    <3> QED
      BY <3>1, <3>2, <3>3, GotoSound
  <2>9. \A i \in 1 .. Len(stack) : FrameSound(a, stack[i])
    BY <2>6, KeptFrames DEF a
  <2>10. \A i \in 1 .. Len(Rest) : FrameSound(a, Rest[i])
    BY <2>5, <2>9
  <2> HIDE DEF E
  <2> QED
    BY <2>1, <2>4, <2>5, <2>8, <2>10, NewPointSound DEF a
<1>12. ASSUME UNCHANGED <<at, edges, stack, pos, live>>
       PROVE  SoundInv'
  BY <1>12 DEF SoundInv
<1>13. ASSUME NEW e \in edges, Run(e)
       PROVE  SoundInv'
  <2>1. /\ e.to \in 1 .. cur /\ e.ops \in SUBSET Ops /\ EdgeSound(at, e)
        /\ e.from = pos /\ pos' = e.to /\ UNCHANGED walkVars
    BY <1>13 DEF Run, TypeInv, TypeOK, SoundInv
  <2>2. live \in [Bindings -> SUBSET Fields] /\ pos \in 1 .. cur
    BY DEF TypeInv, TypeOK
  <2>3. ASSUME NEW b \in Bindings
        PROVE  ValidSet(at[e.to][b]) \subseteq live'[b]
    <3>1. ValidSet(at[pos][b]) \subseteq live[b]
      BY DEF SoundInv
    <3>2. CASE \A op \in e.ops : op.b # b
      BY <1>13, <2>1, <3>1, <3>2 DEF Run, EdgeSound
    <3>3. CASE \E op \in e.ops : op.b = b
      <4>1. PICK op \in e.ops : op.b = b
        BY <3>3
      <4>2. op = CHOOSE o \in e.ops : TRUE
        BY <2>1 DEF EdgeSound
      <4>3. live'[b] = Effect(live[b], op)
        BY <1>13, <3>3, <4>2 DEF Run
      <4>4. ValidSet(at[e.to][b]) \subseteq Effect(ValidSet(at[pos][b]), op)
        BY <2>1, <4>1 DEF EdgeSound
      <4>5. Effect(ValidSet(at[pos][b]), op) \subseteq Effect(live[b], op)
        BY <2>1, <2>2, <3>1, EffectMonotone
      <4> QED
        BY <4>3, <4>4, <4>5
    <3> QED
      BY <3>2, <3>3
  <2> QED
    BY <2>1, <2>3 DEF SoundInv, walkVars
<1>14. ASSUME NEW k \in {"if", "match", "partial", "loop", "for", "and"},
              NewPoint(at[cur], Goto({cur}, cur + 1), Append(stack, Frame(k))),
              UNCHANGED <<pos, live>>
       PROVE  SoundInv'
  BY <1>14, OpenSound DEF Kinds
<1>15. CASE Branching
  BY <1>3, <1>4, <1>14, <1>15 DEF Branching, OpenBranch, Open, Walking
<1>16. CASE Handling
  BY <1>6, <1>7, <1>8, <1>16 DEF Handling
<1>17. CASE LoopStep
  BY <1>9, <1>10, <1>11, <1>12, <1>14, <1>17
     DEF LoopStep, OpenLoop, Open, Walking, RejectLoop, Looping, Report, walkVars
<1>18. CASE OpenAnd
  BY <1>14, <1>18 DEF OpenAnd, Open, Walking
<1>19. CASE Finish \/ RejectExit \/ Return \/ \E op \in Ops : Reject(op)
  BY <1>12, <1>19
     DEF Finish, RejectExit, Return, Reject, Report, Open, Walking, walkVars
<1>20. CASE UNCHANGED vars
  BY <1>12, <1>20 DEF vars, walkVars
<1> QED
  BY <1>2, <1>4, <1>13, <1>15, <1>16, <1>17, <1>18, <1>19, <1>20 DEF Next

\* Only a partial match whose arms all exit makes the walk take a block that
\* control falls through for an exit.
LEMMA ClearStep ==
    ASSUME Avoids = Oversights, TypeInv, SoundInv, ClearInv, [Next]_vars
    PROVE  ClearInv'
<1>0. /\ stack \in Seq(Frames) /\ Len(stack) \in Nat
      /\ \A i \in 1 .. Len(stack) : stack[i] \in Frames /\ stack[i].past = FALSE
      /\ \A i \in 1 .. Len(stack) : FrameSound(at, stack[i])
      /\ flow # "slips" /\ "gap" \in Avoids /\ (Falls => ~Exits)
  BY TypeInvFrames DEF ClearInv, FrameType, Oversights, SoundInv, Falls, Exits
<1>1. ASSUME Len(stack) > 0
      PROVE  /\ Top \in Frames /\ Top.past = FALSE /\ FrameSound(at, Top)
             /\ Len(Rest) = Len(stack) - 1
             /\ \A i \in 1 .. Len(Rest) : i \in 1 .. Len(stack) /\ Rest[i] = stack[i]
  BY <1>0, <1>1, RestFacts DEF Top
<1>2. ASSUME NEW k \in Kinds, Falls, stack' = Append(stack, Frame(k)), flow' = "falls"
      PROVE  ClearInv'
  <2>1. Frame(k) \in Frames /\ Frame(k).past = FALSE
    BY <1>0, <1>2, FrameOfType DEF Frame
  <2>2. \A i \in 1 .. Len(stack) + 1 : i \in 1 .. Len(stack) \/ i = Len(stack) + 1
    BY <1>0
  <2> QED
    BY <1>0, <1>2, <2>1, <2>2, StackFacts DEF ClearInv
<1>3. ASSUME Len(stack) > 0, NEW fr \in Frames, fr.past = FALSE,
             stack' = Append(Rest, fr), flow' = "falls"
      PROVE  ClearInv'
  <2>1. \A i \in 1 .. Len(stack) : i \in 1 .. Len(Rest) \/ i = Len(stack)
    BY <1>0, <1>1, <1>3
  <2> QED
    BY <1>0, <1>1, <1>3, <2>1, RestFacts DEF ClearInv
<1>4. ASSUME Len(stack) > 0, stack' = Rest, flow' # "slips"
      PROVE  ClearInv'
  BY <1>0, <1>1, <1>4 DEF ClearInv
<1>5. ASSUME NEW i \in 1 .. Len(stack), flow' # "slips",
             stack' = [stack EXCEPT ![i].outs = @ \cup {cur}]
      PROVE  ClearInv'
  <2>1. \A j \in 1 .. Len(stack) : stack'[j].past = stack[j].past
    BY <1>0, <1>5 DEF Frames
  <2>2. Len(stack') = Len(stack)
    BY <1>0, <1>5
  <2> QED
    BY <1>0, <2>1, <2>2, <1>5 DEF ClearInv
<1>6. ASSUME NextArm
      PROVE  ClearInv'
  <2>1. Len(stack) > 0
    BY <1>6 DEF NextArm
  <2>2. PICK k \in Kinds, c \in Envs, l \in BOOLEAN, n \in SUBSET Points :
           stack' = Append(Rest, [Top EXCEPT !.kind = k, !.acc = c, !.all = l, !.ends = n])
    <3>1. Top.kind \in {"if", "match", "partial"} /\ Joined(Top) \in Envs /\ at[cur] \in Envs
      BY <1>1, <1>6, <2>1, JoinedType, TypeInvFrames DEF NextArm
    <3>2. Top.ends \cup Falling \in SUBSET Points
      BY <1>1, <2>1, TypeInvFrames DEF Frames, Falling, Points
    <3> DEFINE k == IF Top.kind = "if" THEN "else" ELSE Top.kind
               c == IF Top.kind = "if" THEN at[cur] ELSE Joined(Top)
               l == Top.all /\ Exits
               n == Top.ends \cup Falling
    <3>3. k \in Kinds /\ c \in Envs /\ l \in BOOLEAN /\ n \in SUBSET Points
      BY <3>1, <3>2 DEF Kinds
    <3>4. stack' = Append(Rest, [Top EXCEPT !.kind = k, !.acc = c, !.all = l, !.ends = n])
      BY <1>6 DEF NextArm, NewPoint
    <3> HIDE DEF k, c, l, n
    <3> QED
      BY <3>3, <3>4
  <2> QED
    <3>0. PICK fr : fr = [Top EXCEPT !.kind = k, !.acc = c, !.all = l, !.ends = n]
      OBVIOUS
    <3>1. Top \in Frames /\ Top.past = FALSE
      BY <1>1, <2>1
    <3>2. fr \in Frames /\ fr.past = Top.past
      BY <3>0, <3>1 DEF Frames
    <3>3. stack' = Append(Rest, fr) /\ flow' = "falls"
      BY <1>6, <2>2, <3>0 DEF NextArm
    <3> QED
      BY <1>3, <2>1, <3>1, <3>2, <3>3
<1>7. ASSUME Recover
      PROVE  ClearInv'
  <2>1. Len(stack) > 0 /\ at[cur] \in Envs /\ Exits \in BOOLEAN
    BY <1>7, TypeInvFrames, FlowFacts DEF Recover
  <2>2. Falling \in SUBSET Points /\ "recovery" \in Kinds
    BY TypeInvFrames DEF Falling, Points, Kinds
  <2>l. PICK l \in BOOLEAN : l = Exits
    BY <2>1
  <2>f. PICK fr : fr = [Top EXCEPT !.kind = "recovery", !.acc = at[cur],
                                   !.all = l, !.ends = Falling]
    OBVIOUS
  <2>3. stack' = Append(Rest, fr) /\ flow' = "falls"
    BY <1>7, <2>l, <2>f DEF Recover, NewPoint
  <2>4. Top \in Frames /\ Top.past = FALSE
    BY <1>1, <2>1
  <2>5. fr \in Frames /\ fr.past = Top.past
    BY <2>1, <2>2, <2>4, <2>f DEF Frames
  <2> QED
    BY <1>3, <2>1, <2>3, <2>4, <2>5
<1>8. ASSUME CloseBranch
      PROVE  ClearInv'
  <2>1. Len(stack) > 0 /\ stack' = Rest
    BY <1>8 DEF CloseBranch, NewPoint
  <2> DEFINE ends == Top.ends \cup Falling \cup NoArm
             exit == Top.all /\ Exits /\ Top.kind # "recovery"
  <2>2. flow' = FlowOf(ends # {}, exit) /\ (Top.kind = "partial" => ~exit)
    BY <1>0, <1>1, <1>8, <2>1 DEF CloseBranch
  <2>3. exit => ends = {}
    BY <1>0, <1>1, <2>1, <2>2, ClearFacts DEF FrameSound, NoArm
  <2> HIDE DEF ends, exit
  <2>4. flow' # "slips"
    <3>1. CASE exit
      BY <2>2, <2>3, <3>1 DEF FlowOf
    <3>2. CASE ~exit
      BY <2>2, <3>2 DEF FlowOf
    <3> QED
      BY <3>1, <3>2
  <2> QED
    BY <1>4, <2>1, <2>4
<1>9. ASSUME CloseIf \/ CloseAnd \/ CloseLoop
      PROVE  ClearInv'
  <2>1. Len(stack) > 0 /\ stack' = Rest /\ flow' = FlowOf(TRUE, Top.past)
    BY <1>9 DEF CloseIf, CloseAnd, CloseLoop, Looping, NewPoint
  <2> QED
    BY <1>1, <1>4, <2>1 DEF FlowOf
<1>10. ASSUME UNCHANGED stack, flow' # "slips"
       PROVE  ClearInv'
  BY <1>0, <1>10 DEF ClearInv
<1>11. CASE Branching
  BY <1>2, <1>6, <1>8, <1>9, <1>11 DEF Branching, OpenBranch, Open, NewPoint, Kinds
<1>12. CASE Handling
  BY <1>0, <1>2, <1>5, <1>7, <1>12 DEF Handling, OpenHandle, Try, Open, NewPoint, Kinds
<1>13. CASE LoopStep
  <2>1. ASSUME NEW k \in {"loop", "for"}, OpenLoop(k)
        PROVE  ClearInv'
    BY <1>2, <2>1 DEF OpenLoop, Open, NewPoint, Kinds
  <2>2. ASSUME NEW i \in 1 .. Len(stack), Break(i) \/ Continue(i)
        PROVE  ClearInv'
    BY <1>5, <1>10, <2>2, FlowFacts DEF Break, Continue
  <2>3. CASE RejectLoop
    BY <1>0, <1>10, <2>3 DEF RejectLoop, Report, walkVars
  <2> QED
    BY <1>9, <1>13, <2>1, <2>2, <2>3 DEF LoopStep
<1>14. CASE OpenAnd
  BY <1>2, <1>14 DEF OpenAnd, Open, NewPoint, Kinds
<1>15. ASSUME NEW op \in Ops, Apply(op) \/ Reject(op)
       PROVE  ClearInv'
  BY <1>0, <1>10, <1>15 DEF Apply, Reject, Report, NewPoint, walkVars
<1>16. CASE Return \/ Finish \/ RejectExit \/ UNCHANGED vars
  BY <1>0, <1>10, <1>16 DEF Return, Finish, RejectExit, Report, walkVars, vars
<1>17. ASSUME NEW e \in edges, Run(e)
       PROVE  ClearInv'
  BY <1>0, <1>10, <1>17 DEF Run, walkVars
<1> QED
  BY <1>9, <1>11, <1>12, <1>13, <1>14, <1>15, <1>16, <1>17 DEF Next

\* At entry the parameters hold what the initial environment claims.
LEMMA SoundInit ==
    ASSUME Init
    PROVE  SoundInv
<1>1. edges = {} /\ Len(stack) = 0 /\ pos = 1 /\ 1 \in Points
  BY ModeAssumption DEF Init, Points
<1>2. ValidSet(Uninit) = {} /\ ValidSet(Valid) = Fields
  BY DEF ValidSet, Uninit, Valid
<1>3. \A b \in Bindings : ValidSet(at[1][b]) \subseteq live[b]
  BY <1>1, <1>2 DEF Init
<1> QED
  BY <1>1, <1>3 DEF SoundInv

\* For every body built of any number of constructs: if its jumps (break,
\* continue and `?`) leave only where the environment of their target holds,
\* the skipped operands of && and || and the partial matches make nothing
\* valid that was not, no partial match has arms that all leave the function, and its
\* compound assignments have a valid target, then what the checker accepts
\* never reads, moves or borrows a field without a value.  The five runs
\* ModeJump, ModeRaise, ModeSkip, ModeGap and ModeUpdate show that none of
\* these conditions can be left out.
THEOREM AcceptedBodiesAreSound ==
    ASSUME Avoids = Oversights
    PROVE  Spec => []NoDeadUse
<1>1. Init => TypeInv /\ SoundInv /\ ClearInv
  BY TypeInit, SoundInit DEF Init, ClearInv
<1>2. TypeInv /\ SoundInv /\ ClearInv /\ [Next]_vars => TypeInv' /\ SoundInv' /\ ClearInv'
  BY TypeStep, SoundStep, ClearStep
<1>3. TypeInv /\ SoundInv => NoDeadUse
  <2> SUFFICES ASSUME TypeInv, SoundInv, NEW e \in edges, e.from = pos,
                      NEW op \in e.ops
               PROVE  Needs(op) \subseteq live[op.b]
    BY DEF NoDeadUse
  <2>1. op \in Ops /\ EdgeSound(at, e)
    BY DEF TypeInv, TypeOK, SoundInv
  <2>2. op.b \in Bindings /\ Needs(op) \subseteq ValidSet(at[pos][op.b])
    BY <2>1, OpFacts DEF EdgeSound
  <2> QED
    BY <2>2 DEF SoundInv
<1> QED
  BY <1>1, <1>2, <1>3, PTL DEF Spec
=============================================================================
