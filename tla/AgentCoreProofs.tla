--------------------------- MODULE AgentCoreProofs ---------------------------
(***************************************************************************)
(* The two parts of agent-core that stand beside the driver.               *)
(*                                                                         *)
(* The fold of SystemState, for every set of sessions, plugins, tools and  *)
(* actions, and under any order of events and calls: its types, and the    *)
(* invariants that need no discipline of the callers; then those that do.  *)
(* The cancel cascade alone needs that the sessions are finitely many.     *)
(*                                                                         *)
(* Then parse_goal_step, for replies of any length: what the search from   *)
(* the end has in common with a pass from the start.                       *)
(***************************************************************************)
EXTENDS SystemStateFold, StepVerdict, FiniteSetTheorems, SequenceTheorems,
        WellFoundedInduction, TLAPS

-----------------------------------------------------------------------------
(* Types.                                                                  *)

\* Appending a session to a spawned list gives a spawned list, with that
\* session and no other new one.
LEMMA AppendSpawned ==
    ASSUME NEW list \in Seq(Sessions), NEW c \in Sessions
    PROVE  /\ Append(list, c) \in Seq(Sessions)
           /\ {Append(list, c)[i] : i \in 1..Len(Append(list, c))}
                = {list[i] : i \in 1..Len(list)} \union {c}
<1>1. /\ Append(list, c) \in Seq(Sessions)
      /\ Len(Append(list, c)) = Len(list) + 1
      /\ Len(list) \in Nat
      /\ \A i \in 1..Len(list) : Append(list, c)[i] = list[i]
      /\ Append(list, c)[Len(list) + 1] = c
    OBVIOUS
<1>2. 1..Len(list) + 1 = (1..Len(list)) \union {Len(list) + 1}
    BY <1>1
<1> QED
    BY <1>1, <1>2

\* The contexts that register_child and the first prompt insert.
LEMMA ContextTypes ==
    /\ Absent \in Context
    /\ Root \in Context
    /\ \A p \in Sessions : Child(p) \in Context
<1>1. << >> \in Seq(Sessions)
    OBVIOUS
<1> QED
    BY <1>1 DEF Absent, Root, Child, Context

\* A context that does not change has the children it had.
LEMMA SpawnedSame ==
    ASSUME NEW s, sessions'[s] = sessions[s]
    PROVE  Spawned(s)' = Spawned(s)
BY DEF Spawned

\* What register_child does to the sessions, one session at a time.
LEMMA RegisterChildEffect ==
    ASSUME TypeOK, NEW child \in Sessions, NEW parent \in Sessions,
           RegisterChild(child, parent)
    PROVE  /\ sessions' \in [Sessions -> Context]
           /\ ParentOf(child)' = parent
           /\ child = parent => Spawned(child)' = {child}
           /\ child # parent => Spawned(child)' = {}
           /\ child # parent =>
                 /\ Live(parent)' = Live(parent)
                 /\ ParentOf(parent)' = ParentOf(parent)
                 /\ sessions'[parent].history = sessions[parent].history
                 /\ Spawned(parent)' \in {Spawned(parent), Spawned(parent) \union {child}}
           /\ \A s \in Sessions \ {child, parent} : sessions'[s] = sessions[s]
<1> DEFINE inserted == [sessions EXCEPT ![child] = Child(parent)]
           found == inserted[parent]
           heir == WithChild(found, child)
<1>1. Child(parent) \in Context
    BY ContextTypes
<1>2. /\ inserted \in [Sessions -> Context]
      /\ inserted[child] = Child(parent)
      /\ \A s \in Sessions \ {child} : inserted[s] = sessions[s]
    BY <1>1 DEF TypeOK
<1>3. found \in Context /\ found.spawned \in Seq(Sessions)
    BY <1>2 DEF Context
<1>4. IF found.live THEN sessions' = [inserted EXCEPT ![parent] = heir]
                    ELSE sessions' = inserted
    BY DEF RegisterChild, Registered
<1>5. CASE found.live
    <2>1. sessions' = [inserted EXCEPT ![parent] = heir]
        BY <1>4, <1>5
    <2>2. /\ heir \in Context
          /\ heir.spawned = Append(found.spawned, child)
          /\ heir.live = found.live
          /\ heir.parent = found.parent
          /\ heir.history = found.history
        BY <1>3, AppendSpawned DEF Context, WithChild
    <2> HIDE DEF inserted, found, heir
    <2>3. /\ sessions' \in [Sessions -> Context]
          /\ sessions'[parent] = heir
          /\ \A s \in Sessions \ {parent} : sessions'[s] = inserted[s]
        BY <1>2, <2>1, <2>2
    <2>4. Spawned(parent)' = {found.spawned[i] : i \in 1..Len(found.spawned)} \union {child}
        <3>1. sessions'[parent].spawned = Append(found.spawned, child)
            BY <2>2, <2>3
        <3> QED
            BY <1>3, <3>1, AppendSpawned DEF Spawned
    <2>5. CASE child = parent
        <3>1. found = Child(parent)
            BY <1>2, <2>5 DEF found
        <3>2. /\ ParentOf(child)' = parent
              /\ Spawned(child)' = {child}
            BY <2>2, <2>3, <2>4, <2>5, <3>1 DEF ParentOf, Child
        <3> QED
            BY <1>2, <2>3, <2>5, <3>2
    <2>6. CASE child # parent
        <3>1. found = sessions[parent] /\ sessions'[child] = Child(parent)
            BY <1>2, <2>3, <2>6 DEF found
        <3>2. ParentOf(child)' = parent /\ Spawned(child)' = {}
            BY <3>1 DEF ParentOf, Spawned, Child
        <3>3. /\ Live(parent)' = Live(parent)
              /\ ParentOf(parent)' = ParentOf(parent)
              /\ sessions'[parent].history = sessions[parent].history
              /\ Spawned(parent)' = Spawned(parent) \union {child}
            BY <2>2, <2>3, <2>4, <3>1 DEF ParentOf, Live, Spawned
        <3> QED
            BY <1>2, <2>3, <2>6, <3>2, <3>3
    <2> QED
        BY <2>5, <2>6
<1>6. CASE ~found.live
    <2>1. child # parent
        BY <1>2, <1>6 DEF Child
    <2>2. /\ sessions' \in [Sessions -> Context]
          /\ sessions'[child] = Child(parent)
          /\ \A s \in Sessions \ {child} : sessions'[s] = sessions[s]
        BY <1>2, <1>4, <1>6
    <2>3. ParentOf(child)' = parent /\ Spawned(child)' = {}
        BY <2>2 DEF ParentOf, Spawned, Child
    <2>4. Spawned(parent)' = Spawned(parent)
        BY <2>1, <2>2, SpawnedSame
    <2> QED
        BY <2>1, <2>2, <2>3, <2>4 DEF Live, ParentOf
<1> QED
    BY <1>5, <1>6

\* What a prompt does to the sessions: a live one hears it, and any other
\* becomes a root.
LEMMA UserPromptEffect ==
    ASSUME TypeOK, NEW s \in Sessions, UserPrompt(s)
    PROVE  /\ sessions' \in [Sessions -> Context]
           /\ \A r \in Sessions :
                 \/ /\ Spawned(r)' = Spawned(r)
                    /\ ParentOf(r)' = ParentOf(r)
                    /\ Live(r)' = Live(r)
                    /\ sessions'[r].history >= sessions[r].history
                 \/ Spawned(r)' = {} /\ ParentOf(r)' = None /\ ~Live(r)
<1> DEFINE ctx == Prompted(s)
           told == [ctx EXCEPT !.history = ctx.history + 1]
<1>1. ctx \in Context /\ \A r \in Sessions : sessions[r].history \in Nat
    BY ContextTypes DEF TypeOK, Prompted, Context
<1>2. /\ told \in Context
      /\ told.spawned = ctx.spawned /\ told.parent = ctx.parent /\ told.live = ctx.live
      /\ told.history = ctx.history + 1
    BY <1>1 DEF Context
<1>3. sessions' = [sessions EXCEPT ![s] = told]
    BY DEF UserPrompt
<1> HIDE DEF told
<1>4. /\ sessions' \in [Sessions -> Context]
      /\ sessions'[s] = told
      /\ \A r \in Sessions \ {s} : sessions'[r] = sessions[r]
    BY <1>2, <1>3 DEF TypeOK
<1>5. CASE Live(s)
    <2>1. ctx = sessions[s]
        BY <1>5 DEF Prompted
    <2>2. /\ sessions'[s].spawned = sessions[s].spawned
          /\ ParentOf(s)' = ParentOf(s)
          /\ Live(s)' = Live(s)
          /\ sessions'[s].history >= sessions[s].history
        BY <1>1, <1>2, <1>4, <2>1 DEF ParentOf, Live
    <2>3. Spawned(s)' = Spawned(s)
        BY <2>2 DEF Spawned
    <2> QED
        BY <1>1, <1>4, <2>2, <2>3, SpawnedSame DEF ParentOf, Live
<1>6. CASE ~Live(s)
    <2>1. ctx = Root
        BY <1>6 DEF Prompted
    <2>2. Spawned(s)' = {} /\ ParentOf(s)' = None
        BY <1>2, <1>4, <2>1 DEF Spawned, ParentOf, Root
    <2> QED
        BY <1>1, <1>4, <1>6, <2>2, SpawnedSame DEF ParentOf, Live
<1> QED
    BY <1>5, <1>6

\* The maps keep their types under every event and call.
LEMMA NextTypeOK == TypeOK /\ [Next]_vars => TypeOK'
<1> SUFFICES ASSUME TypeOK, [Next]_vars PROVE TypeOK'
    OBVIOUS
<1>1. CASE UNCHANGED vars
    BY <1>1 DEF vars, callers, TypeOK
<1>2. ASSUME NEW s \in Sessions, UserPrompt(s) PROVE TypeOK'
    BY <1>2, UserPromptEffect DEF UserPrompt, callers, TypeOK
<1>3. ASSUME NEW s \in Sessions, NEW a \in Actions, ApprovalPending(s, a) PROVE TypeOK'
    BY <1>3 DEF ApprovalPending, callers, TypeOK
<1>4. ASSUME NEW a \in Actions, UserApproval(a) PROVE TypeOK'
    BY <1>4 DEF UserApproval, callers, TypeOK
<1>5. ASSUME NEW p \in Plugins, NEW advertised \in SUBSET Tools, PluginUp(p, advertised)
      PROVE  TypeOK'
    BY <1>5 DEF PluginUp, TypeOK, Up
<1>6. ASSUME NEW p \in Plugins, PluginDown(p) PROVE TypeOK'
    BY <1>6 DEF PluginDown, Retained, callers, TypeOK, Down
<1>7. ASSUME NEW child \in Sessions, NEW parent \in Sessions, RegisterChild(child, parent)
      PROVE  TypeOK'
    <2>1. sessions' \in [Sessions -> Context]
        BY <1>7, RegisterChildEffect
    <2>2. /\ UNCHANGED <<tools, plugins, approvals, pluginsInOrder>>
          /\ strays' \in 0..MaxStrays
        BY <1>7, FoldAssumption DEF RegisterChild, TypeOK
    <2> QED
        BY <2>1, <2>2 DEF TypeOK
<1> QED
    BY <1>1, <1>2, <1>3, <1>4, <1>5, <1>6, <1>7 DEF Next

\* Every reachable state of SystemState has its type (state.rs:13-23).
THEOREM TypeCorrect == Spec => []TypeOK
<1>1. Init => TypeOK
    BY ContextTypes, FoldAssumption DEF Init, TypeOK, Down
<1> QED
    BY <1>1, NextTypeOK, PTL DEF Spec

-----------------------------------------------------------------------------
(* The spawned lists have no cycle.                                        *)

\* Registering cannot close a cycle of two or more.  Of any set of sessions, if
\* it has the child, the child is the member that spawned none of the others:
\* its list is new, and has at most itself.  If it does not, no list has gained
\* a member of the set.
LEMMA NextSpawnAcyclic == TypeOK /\ SpawnAcyclic /\ [Next]_vars => SpawnAcyclic'
<1> SUFFICES ASSUME TypeOK, SpawnAcyclic, [Next]_vars
             PROVE  /\ \A S \in SUBSET Sessions : S # {} =>
                          \E s \in S : Spawned(s)' \cap S \subseteq {s}
                    /\ \A s \in Sessions : s \in Spawned(s)' <=> ParentOf(s)' = s
    BY DEF SpawnAcyclic
<1>1. /\ \A S \in SUBSET Sessions : S # {} => \E s \in S : Spawned(s) \cap S \subseteq {s}
      /\ \A s \in Sessions : s \in Spawned(s) <=> ParentOf(s) = s
    BY DEF SpawnAcyclic
<1>2. ASSUME \A s \in Sessions : \/ /\ Spawned(s)' = Spawned(s)
                                    /\ ParentOf(s)' = ParentOf(s)
                                 \/ Spawned(s)' = {} /\ ParentOf(s)' = None
      PROVE  /\ \A S \in SUBSET Sessions : S # {} =>
                   \E s \in S : Spawned(s)' \cap S \subseteq {s}
             /\ \A s \in Sessions : s \in Spawned(s)' <=> ParentOf(s)' = s
    <2>1. ASSUME NEW S \in SUBSET Sessions, S # {}
          PROVE  \E s \in S : Spawned(s)' \cap S \subseteq {s}
        <3>1. PICK w \in S : Spawned(w) \cap S \subseteq {w}
            BY <1>1, <2>1
        <3> QED
            BY <1>2, <3>1
    <2>2. ASSUME NEW s \in Sessions PROVE s \in Spawned(s)' <=> ParentOf(s)' = s
        BY <1>1, <1>2, FoldAssumption
    <2> QED
        BY <2>1, <2>2
<1>3. CASE UNCHANGED sessions
    BY <1>2, <1>3 DEF Spawned, ParentOf
<1>4. ASSUME NEW r \in Sessions, UserPrompt(r)
      PROVE  \A s \in Sessions : \/ /\ Spawned(s)' = Spawned(s)
                                    /\ ParentOf(s)' = ParentOf(s)
                                 \/ Spawned(s)' = {} /\ ParentOf(s)' = None
    BY <1>4, UserPromptEffect
<1>5. ASSUME NEW child \in Sessions, NEW parent \in Sessions, RegisterChild(child, parent)
      PROVE  /\ \A S \in SUBSET Sessions : S # {} =>
                   \E s \in S : Spawned(s)' \cap S \subseteq {s}
             /\ \A s \in Sessions : s \in Spawned(s)' <=> ParentOf(s)' = s
    <2>1. /\ ParentOf(child)' = parent
          /\ child = parent => Spawned(child)' = {child}
          /\ child # parent => Spawned(child)' = {}
          /\ child # parent =>
                /\ ParentOf(parent)' = ParentOf(parent)
                /\ Spawned(parent)' \in {Spawned(parent), Spawned(parent) \union {child}}
          /\ \A s \in Sessions \ {child, parent} :
                Spawned(s)' = Spawned(s) /\ ParentOf(s)' = ParentOf(s)
        BY <1>5, RegisterChildEffect, SpawnedSame DEF ParentOf
    <2>2. ASSUME NEW S \in SUBSET Sessions, S # {}
          PROVE  \E s \in S : Spawned(s)' \cap S \subseteq {s}
        <3>1. CASE child \in S
            BY <2>1, <3>1
        <3>2. CASE child \notin S
            <4>1. PICK w \in S : Spawned(w) \cap S \subseteq {w}
                BY <1>1, <2>2
            <4>2. Spawned(w)' \subseteq Spawned(w) \union {child}
                BY <2>1, <3>2
            <4> QED
                BY <3>2, <4>1, <4>2
        <3> QED
            BY <3>1, <3>2
    <2>3. ASSUME NEW s \in Sessions PROVE s \in Spawned(s)' <=> ParentOf(s)' = s
        <3>1. CASE s = child
            BY <2>1, <3>1
        <3>2. CASE s # child
            BY <1>1, <2>1, <3>2
        <3> QED
            BY <3>1, <3>2
    <2> QED
        BY <2>2, <2>3
<1> QED
    BY <1>2, <1>3, <1>4, <1>5 DEF Next, vars, ApprovalPending, UserApproval, PluginUp, PluginDown

\* Under any order of prompts and registrations, re-registrations of a known
\* session and of a session below itself included, the spawned lists have no
\* cycle but that of a session which lists itself, and those are exactly the
\* sessions registered as their own parent: nothing else can keep subtree, which
\* has no visited set, from ending (state.rs:148-166).
THEOREM SpawnAcyclicHolds == Spec => []SpawnAcyclic
<1>1. Init => SpawnAcyclic
    <2> SUFFICES ASSUME Init PROVE SpawnAcyclic
        OBVIOUS
    <2>1. \A s \in Sessions : Spawned(s) = {} /\ ParentOf(s) = None
        BY DEF Init, Spawned, ParentOf, Absent
    <2> QED
        BY <2>1, FoldAssumption DEF SpawnAcyclic
<1> QED
    BY <1>1, NextSpawnAcyclic, TypeCorrect, PTL DEF Spec

-----------------------------------------------------------------------------
(* The plugin maps.                                                        *)

\* No tool is ever registered to a plugin that is down, under any order of
\* announcements (state.rs:85-95).
THEOREM ToolOwnerLiveHolds == Spec => []ToolOwnerLive
<1>1. Init => ToolOwnerLive
    BY DEF Init, ToolOwnerLive
<1>2. TypeOK /\ ToolOwnerLive /\ [Next]_vars => ToolOwnerLive'
    <2> SUFFICES ASSUME TypeOK, ToolOwnerLive, [Next]_vars PROVE ToolOwnerLive'
        OBVIOUS
    <2>1. CASE UNCHANGED <<tools, plugins>>
        BY <2>1 DEF ToolOwnerLive, PluginLive
    <2>2. ASSUME NEW p \in Plugins, NEW advertised \in SUBSET Tools,
                 PluginUp(p, advertised)
          PROVE  ToolOwnerLive'
        BY <2>2 DEF PluginUp, ToolOwnerLive, PluginLive, TypeOK, Up
    <2>3. ASSUME NEW p \in Plugins, PluginDown(p) PROVE ToolOwnerLive'
        BY <2>3 DEF PluginDown, Retained, ToolOwnerLive, PluginLive, TypeOK
    <2> QED
        BY <2>1, <2>2, <2>3
        DEF Next, vars, callers, UserPrompt, ApprovalPending, UserApproval, RegisterChild
<1> QED
    BY <1>1, <1>2, TypeCorrect, PTL DEF Spec

\* When no plugin is announced twice without going down, and no tool by two,
\* the tools registered to a plugin are those it advertises (state.rs:17-20).
THEOREM RegistryExactHolds == Spec => []RegistryExact
<1>1. Init => RegistryExact
    BY DEF Init, RegistryExact, PluginLive, Down
<1>2. TypeOK /\ ToolOwnerLive /\ RegistryExact /\ [Next]_vars => RegistryExact'
    <2> SUFFICES ASSUME TypeOK, ToolOwnerLive, RegistryExact, [Next]_vars, pluginsInOrder',
                        NEW p \in Plugins, PluginLive(p)'
                 PROVE  plugins'[p].tools = {t \in Tools : tools'[t] = p}
        BY DEF RegistryExact
    <2>1. CASE UNCHANGED <<tools, plugins, pluginsInOrder>>
        BY <2>1 DEF RegistryExact, PluginLive
    <2>2. ASSUME NEW q \in Plugins, NEW advertised \in SUBSET Tools,
                 PluginUp(q, advertised)
          PROVE  plugins'[p].tools = {t \in Tools : tools'[t] = p}
        <3>1. /\ pluginsInOrder
              /\ ~PluginLive(q)
              /\ \A r \in Plugins : PluginLive(r) => plugins[r].tools \cap advertised = {}
              /\ tools' = [t \in Tools |-> IF t \in advertised THEN q ELSE tools[t]]
              /\ plugins' = [plugins EXCEPT ![q] = Up(advertised)]
            BY <2>2 DEF PluginUp
        <3>2. CASE p = q
            <4>1. \A t \in Tools : tools[t] # q
                BY <3>1, FoldAssumption DEF ToolOwnerLive
            <4> QED
                BY <3>1, <3>2, <4>1 DEF Up, TypeOK
        <3>3. CASE p # q
            <4>1. PluginLive(p) /\ plugins'[p] = plugins[p]
                BY <3>1, <3>3 DEF PluginLive, TypeOK
            <4> QED
                BY <3>1, <3>3, <4>1 DEF RegistryExact
        <3> QED
            BY <3>2, <3>3
    <2>3. ASSUME NEW q \in Plugins, PluginDown(q)
          PROVE  plugins'[p].tools = {t \in Tools : tools'[t] = p}
        <3>1. /\ pluginsInOrder
              /\ tools' = [t \in Tools |-> IF tools[t] = q THEN None ELSE tools[t]]
              /\ plugins' = [plugins EXCEPT ![q] = Down]
            BY <2>3 DEF PluginDown, Retained, callers
        <3>2. p # q /\ PluginLive(p) /\ plugins'[p] = plugins[p]
            BY <3>1 DEF PluginLive, TypeOK, Down
        <3> QED
            BY <3>1, <3>2, FoldAssumption DEF RegistryExact
    <2> QED
        BY <2>1, <2>2, <2>3
        DEF Next, vars, callers, UserPrompt, ApprovalPending, UserApproval, RegisterChild
<1> QED
    BY <1>1, <1>2, TypeCorrect, ToolOwnerLiveHolds, PTL DEF Spec

-----------------------------------------------------------------------------
(* Histories.                                                              *)

\* No event and no call takes a live session's context, parent, history or
\* children, except that register_child of a live session replaces the context
\* of that session and of no other (state.rs:30-47,148-153).
THEOREM HistoryKeptHolds == Spec => HistoryKept
<1> DEFINE OneReplaced == \A s \in Sessions : Live(s) /\ ~Kept(s) =>
                             /\ strays' = strays + 1
                             /\ \A t \in Sessions \ {s} : Live(t) => Kept(t)
<1>1. TypeOK /\ [Next]_vars => OneReplaced
    <2> SUFFICES ASSUME TypeOK, [Next]_vars PROVE OneReplaced
        OBVIOUS
    <2>1. \A s \in Sessions : sessions[s].history \in Nat
        BY DEF TypeOK, Context
    <2>2. \A s \in Sessions : sessions'[s] = sessions[s] => (Live(s) => Kept(s))
        BY <2>1, SpawnedSame DEF Kept, Live, ParentOf
    <2>3. CASE UNCHANGED sessions
        BY <2>2, <2>3
    <2>4. ASSUME NEW r \in Sessions, UserPrompt(r) PROVE OneReplaced
        BY <2>4, UserPromptEffect DEF Kept
    <2>5. ASSUME NEW child \in Sessions, NEW parent \in Sessions,
                 RegisterChild(child, parent)
          PROVE  OneReplaced
        <3>1. \A s \in Sessions \ {child} : Live(s) => Kept(s)
            <4>1. CASE child = parent
                BY <2>2, <2>5, <4>1, RegisterChildEffect
            <4>2. CASE child # parent
                <5>1. Live(parent) => Kept(parent)
                    BY <2>1, <2>5, <4>2, RegisterChildEffect DEF Kept
                <5> QED
                    BY <2>2, <2>5, <5>1, RegisterChildEffect
            <4> QED
                BY <4>1, <4>2
        <3>2. Live(child) => strays' = strays + 1
            BY <2>5 DEF RegisterChild
        <3> QED
            BY <3>1, <3>2
    <2> QED
        BY <2>3, <2>4, <2>5
        DEF Next, vars, ApprovalPending, UserApproval, PluginUp, PluginDown
<1> QED
    BY <1>1, TypeCorrect, PTL DEF Spec, HistoryKept

-----------------------------------------------------------------------------
(* The sessions are a forest.                                              *)

\* While every registration was of a fresh child of a live parent, lists of
\* children and parent links are each other's inverse, nobody is listed twice,
\* and following parents ends.
ForestInv ==
    strays = 0 =>
        /\ \A s \in Sessions : ~Live(s) => sessions[s] = Absent
        /\ \A p, s \in Sessions : s \in Spawned(p) <=> ParentOf(s) = p
        /\ \A p \in Sessions : \A i, j \in 1..Len(sessions[p].spawned) :
              sessions[p].spawned[i] = sessions[p].spawned[j] => i = j
        /\ \A S \in SUBSET Sessions : S # {} => \E s \in S : ParentOf(s) \notin S

\* A registration in order: of a session that had no context, below one that has.
LEMMA FreshChild ==
    ASSUME TypeOK, ForestInv, NEW child \in Sessions, NEW parent \in Sessions,
           RegisterChild(child, parent), strays' = 0
    PROVE  /\ strays = 0 /\ child # parent
           /\ Live(parent) /\ sessions[child] = Absent
           /\ sessions'[child] = Child(parent)
           /\ sessions'[parent].live
           /\ ParentOf(parent)' = ParentOf(parent)
           /\ sessions'[parent].spawned = Append(sessions[parent].spawned, child)
           /\ \A s \in Sessions \ {child, parent} : sessions'[s] = sessions[s]
<1>1. strays \in Nat
    BY FoldAssumption DEF TypeOK
<1>2. strays = 0 /\ child # parent /\ Live(parent) /\ ~Live(child)
    BY <1>1 DEF RegisterChild
<1>3. sessions[child] = Absent
    BY <1>2 DEF ForestInv
<1>4. sessions[parent] \in Context
    BY DEF TypeOK
<1>5. sessions' = [[sessions EXCEPT ![child] = Child(parent)]
                      EXCEPT ![parent] = WithChild(sessions[parent], child)]
    BY <1>2 DEF RegisterChild, Registered, Live, TypeOK
<1>6. /\ sessions'[child] = Child(parent)
      /\ sessions'[parent] = WithChild(sessions[parent], child)
      /\ \A s \in Sessions \ {child, parent} : sessions'[s] = sessions[s]
    BY <1>2, <1>5 DEF TypeOK
<1>7. /\ sessions'[parent].live = sessions[parent].live
      /\ sessions'[parent].parent = sessions[parent].parent
      /\ sessions'[parent].spawned = Append(sessions[parent].spawned, child)
    BY <1>4, <1>6 DEF WithChild, Context
<1> QED
    BY <1>2, <1>3, <1>6, <1>7 DEF Live, ParentOf

\* A prompt leaves parents and lists as they are: the root that it may create
\* has neither.
LEMMA PromptKeepsForest ==
    ASSUME TypeOK, ForestInv, strays = 0, NEW r \in Sessions, UserPrompt(r)
    PROVE  /\ \A s \in Sessions : ParentOf(s)' = ParentOf(s)
           /\ \A s \in Sessions : sessions'[s].spawned = sessions[s].spawned
           /\ \A s \in Sessions : ~Live(s)' => sessions'[s] = sessions[s] /\ ~Live(s)
<1> DEFINE ctx == Prompted(r)
           told == [ctx EXCEPT !.history = ctx.history + 1]
<1>1. ctx \in Context /\ ctx.live
    BY ContextTypes DEF TypeOK, Prompted, Root, Live
<1>2. told.live /\ told.parent = ctx.parent /\ told.spawned = ctx.spawned
    BY <1>1 DEF Context
<1>3. ctx.parent = sessions[r].parent /\ ctx.spawned = sessions[r].spawned
    <2>1. CASE Live(r)
        BY <2>1 DEF Prompted
    <2>2. CASE ~Live(r)
        <3>1. sessions[r] = Absent
            BY <2>2 DEF ForestInv
        <3> QED
            BY <2>2, <3>1 DEF Prompted, Root, Absent
    <2> QED
        BY <2>1, <2>2
<1>4. sessions' = [sessions EXCEPT ![r] = told]
    BY DEF UserPrompt
<1>5. sessions'[r] = told /\ \A s \in Sessions \ {r} : sessions'[s] = sessions[s]
    BY <1>4 DEF TypeOK
<1> QED
    BY <1>2, <1>3, <1>5 DEF ParentOf, Live

\* No event, and no call in order, makes the sessions anything but a forest: a
\* fresh child is nobody's parent.
LEMMA NextForest == TypeOK /\ ForestInv /\ [Next]_vars => ForestInv'
<1> DEFINE Forest == /\ \A s \in Sessions : ~Live(s)' => sessions'[s] = Absent
                     /\ \A p, s \in Sessions : s \in Spawned(p)' <=> ParentOf(s)' = p
                     /\ \A p \in Sessions : \A i, j \in 1..Len(sessions'[p].spawned) :
                           sessions'[p].spawned[i] = sessions'[p].spawned[j] => i = j
                     /\ \A S \in SUBSET Sessions : S # {} => \E s \in S : ParentOf(s)' \notin S
<1> SUFFICES ASSUME TypeOK, ForestInv, [Next]_vars, strays' = 0
             PROVE  Forest
    BY DEF ForestInv
<1>1. CASE UNCHANGED sessions /\ UNCHANGED strays
    BY <1>1 DEF ForestInv, Live, ParentOf, Spawned
<1>2. ASSUME NEW r \in Sessions, UserPrompt(r)
      PROVE  Forest
    <2>1. strays = 0
        BY <1>2 DEF UserPrompt, callers
    <2>2. /\ \A s \in Sessions : ParentOf(s)' = ParentOf(s)
          /\ \A s \in Sessions : sessions'[s].spawned = sessions[s].spawned
          /\ \A s \in Sessions : ~Live(s)' => sessions'[s] = sessions[s] /\ ~Live(s)
        BY <1>2, <2>1, PromptKeepsForest
    <2>3. \A s \in Sessions : Spawned(s)' = Spawned(s)
        BY <2>2 DEF Spawned
    <2> QED
        BY <2>1, <2>2, <2>3 DEF ForestInv
<1>3. ASSUME NEW child \in Sessions, NEW parent \in Sessions, RegisterChild(child, parent)
      PROVE  Forest
    <2>1. /\ strays = 0 /\ child # parent
          /\ Live(parent) /\ sessions[child] = Absent
          /\ sessions'[child] = Child(parent)
          /\ sessions'[parent].live
          /\ ParentOf(parent)' = ParentOf(parent)
          /\ sessions'[parent].spawned = Append(sessions[parent].spawned, child)
          /\ \A s \in Sessions \ {child, parent} : sessions'[s] = sessions[s]
        BY <1>3, FreshChild
    <2>2. /\ \A p, s \in Sessions : s \in Spawned(p) <=> ParentOf(s) = p
          /\ \A s \in Sessions : ~Live(s) => sessions[s] = Absent
        BY <2>1 DEF ForestInv
    <2>3. sessions[parent].spawned \in Seq(Sessions)
        BY DEF TypeOK, Context
    <2>4. Spawned(child) = {} /\ ParentOf(child) = None
        BY <2>1 DEF Spawned, ParentOf, Absent
    <2>5. \A s \in Sessions : ParentOf(s) # child /\ child \notin Spawned(s)
        BY <2>2, <2>4, FoldAssumption
    <2>6. /\ ParentOf(child)' = parent
          /\ \A s \in Sessions \ {child} : ParentOf(s)' = ParentOf(s)
        BY <2>1 DEF ParentOf, Child
    <2>7. /\ Spawned(child)' = {}
          /\ Spawned(parent)' = Spawned(parent) \union {child}
          /\ \A s \in Sessions \ {child, parent} : Spawned(s)' = Spawned(s)
        <3>1. Spawned(child)' = {}
            BY <2>1 DEF Spawned, Child
        <3>2. Spawned(parent)' = Spawned(parent) \union {child}
            BY <2>1, <2>3, AppendSpawned DEF Spawned
        <3>3. \A s \in Sessions \ {child, parent} : Spawned(s)' = Spawned(s)
            BY <2>1, SpawnedSame
        <3> QED
            BY <3>1, <3>2, <3>3
    <2>8. \A s \in Sessions : ~Live(s)' => sessions'[s] = Absent
        BY <2>1, <2>2 DEF Live, Child
    <2>9. \A p, s \in Sessions : s \in Spawned(p)' <=> ParentOf(s)' = p
        BY <2>1, <2>2, <2>4, <2>5, <2>6, <2>7
    <2>10. ASSUME NEW p \in Sessions, NEW i \in 1..Len(sessions'[p].spawned),
                  NEW j \in 1..Len(sessions'[p].spawned),
                  sessions'[p].spawned[i] = sessions'[p].spawned[j]
           PROVE  i = j
        <3>1. \A k, l \in 1..Len(sessions[p].spawned) :
                 sessions[p].spawned[k] = sessions[p].spawned[l] => k = l
            BY <2>1 DEF ForestInv
        <3>2. CASE p = child
            BY <2>1, <3>2 DEF Child
        <3>3. CASE p = parent
            <4> DEFINE list == sessions[parent].spawned
            <4>1. \A k \in 1..Len(list) : list[k] # child
                BY <2>5 DEF Spawned
            <4>2. list \in Seq(Sessions) /\ sessions'[p].spawned = Append(list, child)
                BY <2>1, <2>3, <3>3
            <4>3. \A k, l \in 1..Len(list) : list[k] = list[l] => k = l
                BY <3>1, <3>3
            <4> HIDE DEF list
            <4>4. /\ Len(list) \in Nat /\ Len(Append(list, child)) = Len(list) + 1
                  /\ Append(list, child)[Len(list) + 1] = child
                  /\ \A k \in 1..Len(list) : Append(list, child)[k] = list[k]
                BY <4>2
            <4>5. /\ i \in 1..Len(list) \/ i = Len(list) + 1
                  /\ j \in 1..Len(list) \/ j = Len(list) + 1
                  /\ Append(list, child)[i] = Append(list, child)[j]
                BY <2>10, <4>2, <4>4
            <4> QED
                BY <4>1, <4>3, <4>4, <4>5
        <3>4. CASE p \notin {child, parent}
            BY <2>1, <2>10, <3>1, <3>4
        <3> QED
            BY <3>2, <3>3, <3>4
    <2>11. ASSUME NEW S \in SUBSET Sessions, S # {}
           PROVE  \E s \in S : ParentOf(s)' \notin S
        <3>1. CASE S = {child}
            BY <2>1, <2>6, <3>1
        <3>2. CASE S # {child}
            <4>1. PICK s \in S \ {child} : ParentOf(s) \notin S \ {child}
                <5>1. S \ {child} \in SUBSET Sessions /\ S \ {child} # {}
                    BY <2>11, <3>2
                <5> QED
                    BY <2>1, <5>1 DEF ForestInv
            <4> QED
                BY <2>5, <2>6, <4>1
        <3> QED
            BY <3>1, <3>2
    <2> QED
        BY <2>8, <2>9, <2>10, <2>11
<1> QED
    BY <1>1, <1>2, <1>3
    DEF Next, vars, callers, ApprovalPending, UserApproval, PluginUp, PluginDown

\* ForestInv holds in every state.
LEMMA ForestInductive == Spec => []ForestInv
<1>1. Init => ForestInv
    <2> SUFFICES ASSUME Init PROVE ForestInv
        OBVIOUS
    <2>1. \A s \in Sessions : sessions[s] = Absent
        BY DEF Init
    <2>2. \A s \in Sessions : ParentOf(s) = None /\ Spawned(s) = {}
        BY <2>1 DEF ParentOf, Spawned, Absent
    <2>3. \A p \in Sessions : sessions[p].spawned = << >>
        BY <2>1 DEF Absent
    <2> QED
        BY <2>1, <2>2, <2>3, FoldAssumption DEF ForestInv
<1> QED
    BY <1>1, NextForest, TypeCorrect, PTL DEF Spec

-----------------------------------------------------------------------------
(* The cancel cascade.                                                     *)

\* One iteration of subtree's loop, over the i-th entry of the queue.
Extended(out, i) == IF i <= Len(out) THEN out \o sessions[out[i]].spawned ELSE out

Listed(out) == {out[k] : k \in 1..Len(out)}

\* The queue after i iterations: it starts at the root, nobody is in it twice,
\* the rest were put there by a parent among the first i, and those i have put
\* all their children there.
QueueOf(root, out, i) ==
    /\ out \in Seq(Sessions) /\ Len(out) >= 1 /\ out[1] = root
    /\ \A k \in 2..Len(out) : \E j \in 1..k-1 : j <= i /\ out[j] = ParentOf(out[k])
    /\ \A k, l \in 1..Len(out) : out[k] = out[l] => k = l
    /\ \A k \in 1..Len(out) : k <= i => Spawned(out[k]) \subseteq Listed(out)

Less == {p \in Nat \X Nat : p[1] < p[2]}

\* A non-empty set of numbers has a least element.
LEMMA LeastNumber ==
    ASSUME NEW T \in SUBSET Nat, T # {}
    PROVE  \E m \in T : \A n \in T : m <= n
<1>1. IsWellFoundedOn(Less, Nat)
    BY NatLessThanWellFounded DEF OpToRel, Less
<1>2. PICK m \in T : \A n \in T : <<n, m>> \notin Less
    BY <1>1, WFMin
<1>3. ASSUME NEW n \in T PROVE m <= n
    <2>1. <<n, m>> \in Nat \X Nat /\ <<n, m>> \notin Less
        BY <1>2
    <2> QED
        BY <2>1 DEF Less
<1> QED
    BY <1>3

\* What appending a list to a queue does to its entries.
LEMMA Appended ==
    ASSUME NEW out \in Seq(Sessions), NEW list \in Seq(Sessions)
    PROVE  /\ out \o list \in Seq(Sessions)
           /\ Len(out) \in Nat /\ Len(list) \in Nat
           /\ Len(out \o list) = Len(out) + Len(list)
           /\ \A k \in 1..Len(out) : (out \o list)[k] = out[k]
           /\ \A k \in 1..Len(list) : (out \o list)[Len(out) + k] = list[k]
           /\ \A k \in Len(out)+1..Len(out)+Len(list) :
                 k - Len(out) \in 1..Len(list) /\ (out \o list)[k] = list[k - Len(out)]
OBVIOUS

\* The queue stays one of sessions.
LEMMA ExtendedType ==
    ASSUME TypeOK, NEW out \in Seq(Sessions), NEW i \in Nat \ {0}
    PROVE  Extended(out, i) \in Seq(Sessions)
<1>1. CASE i <= Len(out)
    <2>1. out[i] \in Sessions
        BY <1>1
    <2>2. sessions[out[i]].spawned \in Seq(Sessions)
        BY <2>1 DEF TypeOK, Context
    <2> QED
        BY <1>1, <2>2, Appended DEF Extended
<1> QED
    BY <1>1 DEF Extended

\* The iterations of subtree's loop are defined, however many there are.
LEMMA IterationsExist ==
    ASSUME TypeOK, NEW root \in Sessions, NEW n \in Nat
    PROVE  \E f \in [0..n -> Seq(Sessions)] :
              f[0] = << root >> /\ \A i \in 1..n : f[i] = Extended(f[i - 1], i)
<1> DEFINE Iterations(m) ==
        \E f \in [0..m -> Seq(Sessions)] :
            f[0] = << root >> /\ \A i \in 1..m : f[i] = Extended(f[i - 1], i)
           Undefined == {m \in Nat : ~Iterations(m)}
<1> SUFFICES ASSUME Undefined # {} PROVE FALSE
    OBVIOUS
<1>1. PICK m \in Undefined : \A k \in Undefined : m <= k
    BY LeastNumber
<1>2. m \in Nat /\ ~Iterations(m)
    BY <1>1
<1>3. CASE m = 0
    <2> DEFINE f == [i \in 0..0 |-> << root >>]
    <2>1. << root >> \in Seq(Sessions)
        OBVIOUS
    <2>2. f \in [0..0 -> Seq(Sessions)] /\ f[0] = << root >>
        BY <2>1
    <2> HIDE DEF f
    <2>3. Iterations(0)
        <3>1. \A i \in 1..0 : f[i] = Extended(f[i - 1], i)
            OBVIOUS
        <3> QED
            BY <2>2, <3>1
    <2> QED
        BY <1>2, <1>3, <2>3
<1>4. CASE m # 0
    <2>1. m - 1 \in Nat /\ Iterations(m - 1)
        <3>1. m - 1 \in Nat /\ ~(m <= m - 1)
            BY <1>2, <1>4
        <3> HIDE DEF Iterations
        <3>2. m - 1 \notin Undefined
            BY <1>1, <3>1
        <3> QED
            BY <3>1, <3>2
    <2>2. PICK g \in [0..m-1 -> Seq(Sessions)] :
             g[0] = << root >> /\ \A i \in 1..m-1 : g[i] = Extended(g[i - 1], i)
        BY <2>1
    <2> DEFINE last == Extended(g[m - 1], m)
               f == [i \in 0..m |-> IF i = m THEN last ELSE g[i]]
    <2>3. last \in Seq(Sessions)
        <3>1. g[m - 1] \in Seq(Sessions) /\ m \in Nat \ {0}
            BY <1>2, <1>4, <2>1
        <3> QED
            BY <3>1, ExtendedType
    <2> HIDE DEF last
    <2>4. f \in [0..m -> Seq(Sessions)]
        BY <1>2, <2>3
    <2>5. f[0] = << root >> /\ f[m - 1] = g[m - 1]
        BY <1>2, <1>4, <2>1, <2>2
    <2>6. ASSUME NEW i \in 1..m PROVE f[i] = Extended(f[i - 1], i)
        <3>1. CASE i = m
            BY <2>5, <3>1, <1>2 DEF last
        <3>2. CASE i # m
            <4>1. i \in 1..m-1 /\ f[i] = g[i] /\ f[i - 1] = g[i - 1]
                BY <1>2, <3>2
            <4> QED
                BY <2>2, <4>1
        <3> QED
            BY <3>1, <3>2
    <2> HIDE DEF f
    <2>7. Iterations(m)
        BY <2>4, <2>5, <2>6
    <2> QED
        BY <1>2, <2>7
<1> QED
    BY <1>3, <1>4

\* Subtree is the queue after as many iterations as there are sessions.
LEMMA SubtreeIterates ==
    ASSUME TypeOK, NEW root \in Sessions, Cardinality(Sessions) \in Nat
    PROVE  \E q : /\ q[0] = << root >>
                  /\ \A i \in 1..Cardinality(Sessions) : q[i] = Extended(q[i - 1], i)
                  /\ Subtree(root) = q[Cardinality(Sessions)]
<1> DEFINE N == Cardinality(Sessions)
           Queue(q) == q = [i \in 0..N |->
                              IF i = 0 THEN << root >>
                              ELSE IF i <= Len(q[i - 1])
                                     THEN q[i - 1] \o sessions[q[i - 1][i]].spawned
                                     ELSE q[i - 1]]
           queue == CHOOSE q : Queue(q)
<1>1. Subtree(root) = queue[N]
    BY DEF Subtree
<1>2. \E q : Queue(q)
    <2>1. PICK f \in [0..N -> Seq(Sessions)] :
             f[0] = << root >> /\ \A i \in 1..N : f[i] = Extended(f[i - 1], i)
        BY IterationsExist
    <2>2. ASSUME NEW i \in 0..N
          PROVE  f[i] = IF i = 0 THEN << root >>
                        ELSE IF i <= Len(f[i - 1])
                               THEN f[i - 1] \o sessions[f[i - 1][i]].spawned
                               ELSE f[i - 1]
        <3>1. CASE i = 0
            BY <2>1, <3>1
        <3>2. CASE i # 0
            <4>1. i \in 1..N
                BY <3>2
            <4>2. f[i] = Extended(f[i - 1], i)
                BY <2>1, <4>1
            <4> QED
                BY <3>2, <4>2 DEF Extended
        <3> QED
            BY <3>1, <3>2
    <2>3. Queue(f)
        BY <2>2
    <2> QED
        BY <2>3
<1>3. Queue(queue)
    BY <1>2
<1> HIDE DEF queue
<1>4. queue[0] = << root >>
    BY <1>3
<1>5. ASSUME NEW i \in 1..N PROVE queue[i] = Extended(queue[i - 1], i)
    <2>1. i \in 0..N /\ i # 0
        OBVIOUS
    <2>2. queue[i] = IF i <= Len(queue[i - 1])
                       THEN queue[i - 1] \o sessions[queue[i - 1][i]].spawned
                       ELSE queue[i - 1]
        BY <1>3, <2>1
    <2> QED
        BY <2>2 DEF Extended
<1> QED
    BY <1>1, <1>4, <1>5

\* An iteration over the i-th entry appends its children, none of which is there
\* yet: their only parent has not been looked at before, and the root cannot
\* be below itself.
LEMMA QueueExtends ==
    ASSUME TypeOK, ForestInv, strays = 0, NEW root \in Sessions,
           NEW i \in Nat \ {0}, NEW out, QueueOf(root, out, i - 1)
    PROVE  QueueOf(root, Extended(out, i), i)
<1>1. /\ out \in Seq(Sessions) /\ Len(out) \in Nat /\ Len(out) >= 1 /\ out[1] = root
      /\ \A k \in 2..Len(out) : \E j \in 1..k-1 : j <= i - 1 /\ out[j] = ParentOf(out[k])
      /\ \A k, l \in 1..Len(out) : out[k] = out[l] => k = l
      /\ \A k \in 1..Len(out) : k <= i - 1 => Spawned(out[k]) \subseteq Listed(out)
    BY DEF QueueOf
<1>2. CASE ~(i <= Len(out))
    <2>1. Extended(out, i) = out
        BY <1>2 DEF Extended
    <2>2. \A k \in 1..Len(out) : k <= i - 1
        BY <1>1, <1>2
    <2>3. \A k \in 2..Len(out) : \E j \in 1..k-1 : j <= i /\ out[j] = ParentOf(out[k])
        BY <1>1
    <2> QED
        BY <1>1, <2>1, <2>2, <2>3 DEF QueueOf
<1>3. CASE i <= Len(out)
    <2> DEFINE p == out[i]
               list == sessions[p].spawned
               longer == out \o list
    <2>1. p \in Sessions /\ i \in 1..Len(out)
        BY <1>1, <1>3
    <2>2. list \in Seq(Sessions)
        BY <2>1 DEF TypeOK, Context
    <2>3. \A k, l \in 1..Len(list) : list[k] = list[l] => k = l
        BY <2>1 DEF ForestInv
    <2>4. \A k \in 1..Len(list) : list[k] \in Sessions /\ ParentOf(list[k]) = p
        <3>1. \A s \in Sessions : s \in Spawned(p) <=> ParentOf(s) = p
            BY <2>1 DEF ForestInv
        <3>2. \A k \in 1..Len(list) : list[k] \in Sessions /\ list[k] \in Spawned(p)
            BY <2>2 DEF Spawned
        <3> QED
            BY <3>1, <3>2
    <2>5. Spawned(p) = {list[k] : k \in 1..Len(list)}
        BY DEF Spawned
    <2>6. Extended(out, i) = longer
        BY <1>3 DEF Extended
    <2> HIDE DEF list
    <2>7. /\ longer \in Seq(Sessions) /\ Len(list) \in Nat
          /\ Len(longer) = Len(out) + Len(list)
          /\ \A k \in 1..Len(out) : longer[k] = out[k]
          /\ \A k \in 1..Len(list) : longer[Len(out) + k] = list[k]
          /\ \A k \in Len(out)+1..Len(out)+Len(list) :
                k - Len(out) \in 1..Len(list) /\ longer[k] = list[k - Len(out)]
        BY <1>1, <2>2, Appended
    <2> HIDE DEF longer
    <2>8. \A k \in 1..Len(longer) :
             \/ k \in 1..Len(out) /\ longer[k] = out[k]
             \/ k \in Len(out)+1..Len(longer) /\ k - Len(out) \in 1..Len(list)
                  /\ longer[k] = list[k - Len(out)]
        BY <1>1, <2>7
    <2>9. ParentOf(root) \notin Listed(out)
        <3> SUFFICES ASSUME ParentOf(root) \in Listed(out) PROVE FALSE
            OBVIOUS
        <3>1. \A k \in 1..Len(out) : ParentOf(out[k]) \in Listed(out)
            <4>1. ASSUME NEW k \in 1..Len(out) PROVE ParentOf(out[k]) \in Listed(out)
                <5>1. CASE k = 1
                    BY <1>1, <5>1
                <5>2. CASE k # 1
                    <6>1. k \in 2..Len(out)
                        BY <1>1, <5>2
                    <6>2. PICK j \in 1..k-1 : out[j] = ParentOf(out[k])
                        BY <1>1, <6>1
                    <6>3. j \in 1..Len(out)
                        BY <1>1
                    <6> QED
                        BY <6>2, <6>3 DEF Listed
                <5> QED
                    BY <5>1, <5>2
            <4> QED
                BY <4>1
        <3>2. Listed(out) \in SUBSET Sessions /\ Listed(out) # {}
            <4>1. \A k \in 1..Len(out) : out[k] \in Sessions
                BY <1>1
            <4>2. 1 \in 1..Len(out)
                BY <1>1
            <4> QED
                BY <4>1, <4>2 DEF Listed
        <3>3. PICK s \in Listed(out) : ParentOf(s) \notin Listed(out)
            BY <3>2 DEF ForestInv
        <3> QED
            BY <3>1, <3>3 DEF Listed
    <2>10. \A k \in 1..Len(out) : ParentOf(out[k]) # p
        <3> SUFFICES ASSUME NEW k \in 1..Len(out), ParentOf(out[k]) = p PROVE FALSE
            OBVIOUS
        <3>1. CASE k = 1
            BY <1>1, <2>1, <2>9, <3>1 DEF Listed
        <3>2. CASE k # 1
            <4>1. k \in 2..Len(out)
                BY <1>1, <3>2
            <4>2. PICK j \in 1..k-1 : j <= i - 1 /\ out[j] = p
                BY <1>1, <4>1
            <4>3. j \in 1..Len(out) /\ j # i
                BY <1>1, <4>2
            <4> QED
                BY <1>1, <2>1, <4>2, <4>3
        <3> QED
            BY <3>1, <3>2
    <2>11. Len(longer) >= 1 /\ longer[1] = root
        BY <1>1, <2>7
    <2>12. ASSUME NEW k \in 2..Len(longer)
           PROVE  \E j \in 1..k-1 : j <= i /\ longer[j] = ParentOf(longer[k])
        <3>1. CASE k \in 1..Len(out)
            <4>1. k \in 2..Len(out) /\ longer[k] = out[k]
                BY <1>1, <2>7, <3>1
            <4>2. PICK j \in 1..k-1 : j <= i - 1 /\ out[j] = ParentOf(out[k])
                BY <1>1, <4>1
            <4>3. j \in 1..Len(out) /\ j <= i
                BY <1>1, <4>1, <4>2
            <4> QED
                BY <2>7, <4>1, <4>2, <4>3
        <3>2. CASE k \notin 1..Len(out)
            <4>1. k - Len(out) \in 1..Len(list) /\ longer[k] = list[k - Len(out)]
                BY <2>7, <2>8, <3>2
            <4>2. i \in 1..k-1 /\ longer[i] = p
                BY <1>1, <2>1, <2>7, <3>2
            <4> QED
                BY <2>4, <4>1, <4>2
        <3> QED
            BY <3>1, <3>2
    <2>13. ASSUME NEW k \in 1..Len(longer), NEW l \in 1..Len(longer), longer[k] = longer[l]
           PROVE  k = l
        <3>1. \A m \in 1..Len(out) : ParentOf(out[m]) # p
            BY <2>10
        <3>2. CASE k \in 1..Len(out) /\ l \in 1..Len(out)
            BY <1>1, <2>7, <2>13, <3>2
        <3>3. CASE k \notin 1..Len(out) /\ l \notin 1..Len(out)
            <4>1. /\ k - Len(out) \in 1..Len(list) /\ longer[k] = list[k - Len(out)]
                  /\ l - Len(out) \in 1..Len(list) /\ longer[l] = list[l - Len(out)]
                BY <2>8, <3>3
            <4>2. k - Len(out) = l - Len(out)
                BY <2>3, <2>13, <4>1
            <4> QED
                BY <1>1, <2>7, <4>2
        <3>4. ASSUME NEW x \in 1..Len(longer), NEW y \in 1..Len(longer),
                     x \in 1..Len(out), y \notin 1..Len(out)
              PROVE  longer[x] # longer[y]
            <4>1. longer[x] = out[x]
                BY <2>7, <3>4
            <4>2. y - Len(out) \in 1..Len(list) /\ longer[y] = list[y - Len(out)]
                BY <2>8, <3>4
            <4> QED
                BY <2>4, <3>1, <3>4, <4>1, <4>2
        <3> QED
            BY <2>13, <3>2, <3>3, <3>4
    <2>14. Listed(longer) = Listed(out) \union Spawned(p)
        <3>1. \A k \in 1..Len(longer) : longer[k] \in Listed(out) \union Spawned(p)
            BY <2>5, <2>8 DEF Listed
        <3>2. \A k \in 1..Len(out) : k \in 1..Len(longer) /\ out[k] = longer[k]
            BY <1>1, <2>7
        <3>3. \A k \in 1..Len(list) : Len(out) + k \in 1..Len(longer) /\ list[k] = longer[Len(out) + k]
            BY <1>1, <2>7
        <3>4. Listed(longer) \subseteq Listed(out) \union Spawned(p)
            BY <3>1 DEF Listed
        <3>5. Listed(out) \subseteq Listed(longer)
            BY <3>2 DEF Listed
        <3>6. Spawned(p) \subseteq Listed(longer)
            BY <2>5, <3>3 DEF Listed
        <3> QED
            BY <3>4, <3>5, <3>6
    <2>15. ASSUME NEW k \in 1..Len(longer), k <= i PROVE Spawned(longer[k]) \subseteq Listed(longer)
        <3>1. k \in 1..Len(out) /\ longer[k] = out[k]
            BY <1>1, <1>3, <2>7, <2>15
        <3>2. CASE k = i
            BY <2>14, <3>1, <3>2
        <3>3. CASE k # i
            <4>1. k <= i - 1
                BY <2>15, <3>3
            <4> QED
                BY <1>1, <2>14, <3>1, <4>1
        <3> QED
            BY <3>2, <3>3
    <2> QED
        BY <2>6, <2>7, <2>11, <2>12, <2>13, <2>15 DEF QueueOf
<1> QED
    BY <1>2, <1>3

\* Subtree returns such a queue.
LEMMA SubtreeQueue ==
    ASSUME TypeOK, ForestInv, strays = 0, NEW root \in Sessions, Cardinality(Sessions) \in Nat
    PROVE  QueueOf(root, Subtree(root), Cardinality(Sessions))
<1> DEFINE N == Cardinality(Sessions)
<1>1. PICK q : /\ q[0] = << root >>
               /\ \A i \in 1..N : q[i] = Extended(q[i - 1], i)
               /\ Subtree(root) = q[N]
    BY SubtreeIterates
<1> DEFINE Wrong == {m \in 0..N : ~QueueOf(root, q[m], m)}
<1> SUFFICES ASSUME Wrong # {} PROVE FALSE
    BY <1>1
<1>2. PICK m \in Wrong : \A k \in Wrong : m <= k
    <2>1. Wrong \in SUBSET Nat
        OBVIOUS
    <2> QED
        BY <2>1, LeastNumber
<1>3. m \in 0..N /\ ~QueueOf(root, q[m], m)
    BY <1>2
<1>4. CASE m = 0
    <2>1. << root >> \in Seq(Sessions) /\ Len(<< root >>) = 1 /\ << root >>[1] = root
        OBVIOUS
    <2>2. QueueOf(root, << root >>, 0)
        BY <2>1 DEF QueueOf
    <2> QED
        BY <1>1, <1>3, <1>4, <2>2
<1>5. CASE m # 0
    <2>1. m \in 1..N /\ m \in Nat \ {0} /\ m - 1 \in 0..N /\ m - 1 \notin Wrong
        BY <1>2, <1>3, <1>5
    <2>2. QueueOf(root, q[m - 1], m - 1)
        BY <2>1
    <2>3. QueueOf(root, Extended(q[m - 1], m), m)
        BY <2>1, <2>2, QueueExtends
    <2> QED
        BY <1>1, <1>3, <2>1, <2>3
<1> QED
    BY <1>4, <1>5

\* While every registration was of a fresh child of a live parent, a cancel
\* reaches its session and everything below it, and nothing else: subtree ends,
\* lists nobody twice and parents first, and misses no child (state.rs:148-166).
THEOREM CascadeExactHolds ==
    ASSUME IsFiniteSet(Sessions)
    PROVE  Spec => []CascadeExact
<1> DEFINE N == Cardinality(Sessions)
<1>1. N \in Nat
    BY FS_CardinalityType
<1>2. TypeOK /\ ForestInv => CascadeExact
    <2> SUFFICES ASSUME TypeOK, ForestInv, strays = 0, NEW root \in Sessions
                 PROVE  LET out == Subtree(root)
                            listed == {out[i] : i \in 1..Len(out)}
                        IN  /\ Len(out) <= N
                            /\ out[1] = root
                            /\ \A i \in 2..Len(out) : \E j \in 1..i-1 : out[j] = ParentOf(out[i])
                            /\ \A i, j \in 1..Len(out) : out[i] = out[j] => i = j
                            /\ \A s \in Sessions : ParentOf(s) \in listed => s \in listed
        BY DEF CascadeExact
    <2> DEFINE out == Subtree(root)
    <2>1. QueueOf(root, out, N)
        BY <1>1, SubtreeQueue
    <2> HIDE DEF out
    <2>2. /\ out \in Seq(Sessions) /\ Len(out) \in Nat /\ out[1] = root
          /\ \A i \in 2..Len(out) : \E j \in 1..i-1 : out[j] = ParentOf(out[i])
          /\ \A i, j \in 1..Len(out) : out[i] = out[j] => i = j
          /\ \A k \in 1..Len(out) : k <= N => Spawned(out[k]) \subseteq Listed(out)
        BY <2>1 DEF QueueOf
    <2>3. Len(out) <= N
        <3>1. out \in Injection(1..Len(out), Sessions)
            <4>1. out \in [1..Len(out) -> Sessions]
                BY <2>2
            <4> QED
                BY <2>2, <4>1 DEF Injection, IsInjective
        <3>2. Cardinality(1..Len(out)) <= N
            BY <3>1, FS_Injection
        <3>3. \A n \in Nat : Cardinality(1..n) = n
            <4> SUFFICES ASSUME NEW n \in Nat PROVE Cardinality(1..n) = n
                OBVIOUS
            <4>1. Cardinality(1..n) = IF 1 > n THEN 0 ELSE n - 1 + 1
                BY FS_Interval
            <4> QED
                BY <4>1
        <3> QED
            BY <2>2, <3>2, <3>3
    <2>4. ASSUME NEW s \in Sessions, ParentOf(s) \in Listed(out) PROVE s \in Listed(out)
        <3>1. PICK k \in 1..Len(out) : out[k] = ParentOf(s)
            BY <2>4 DEF Listed
        <3>2. out[k] \in Sessions /\ k <= N
            BY <1>1, <2>2, <2>3
        <3>3. s \in Spawned(out[k])
            BY <3>1, <3>2 DEF ForestInv
        <3> QED
            BY <2>2, <3>2, <3>3
    <2> QED
        BY <2>2, <2>3, <2>4 DEF Listed, out
<1> QED
    BY <1>2, TypeCorrect, ForestInductive, PTL

-----------------------------------------------------------------------------
(* parse_goal_step (StepVerdict): what a line is, from its start to the    *)
(* last token that has arrived.                                            *)

NoBreak == Tokens \ {"nl"}

Blanks(line, i, j) == \A k \in i..j : line[k] = "blank"

\* The marker is the first ink of the line.
MarkedAt(line, m) == Blanks(line, 1, m - 1) /\ line[m] = "GOAL_STEP:"

\* The status word is that of the marked line.
WordAt(line, m, p, q) ==
    /\ Blanks(line, m + 1, p - 1)
    /\ \A k \in p..q : line[k] # "blank"

\* The text is what is left, without the blanks around it.
TextAt(line, q, t, u) ==
    /\ Blanks(line, q + 1, t - 1) /\ Blanks(line, u + 1, Len(line))
    /\ line[t] # "blank" /\ line[u] # "blank"

\* What the mode of the forward scan says of the line in progress.
NotMarked(line, r) ==
    \/ r.mode = "start" /\ Blanks(line, 1, Len(line))
    \/ /\ r.mode = "ignore"
       /\ \E m \in 1..Len(line) :
             Blanks(line, 1, m - 1) /\ line[m] \notin {"blank", "GOAL_STEP:"}

InRest(line, r, m) ==
    /\ r.mode = "rest" /\ r.status = << >> /\ r.text = << >>
    /\ Blanks(line, m + 1, Len(line))

InStatus(line, r, m, p) ==
    /\ r.mode = "status" /\ r.text = << >>
    /\ WordAt(line, m, p, Len(line)) /\ r.status = SubSeq(line, p, Len(line))

BeforeText(line, r, m, p, q) ==
    /\ r.mode = "text" /\ r.text = << >>
    /\ WordAt(line, m, p, q) /\ r.status = SubSeq(line, p, q)
    /\ Blanks(line, q + 1, Len(line))

InText(line, r, m, p, q, t, u) ==
    /\ r.mode = "text" /\ r.text = SubSeq(line, t, u) /\ r.gap = SubSeq(line, u + 1, Len(line))
    /\ WordAt(line, m, p, q) /\ r.status = SubSeq(line, p, q)
    /\ TextAt(line, q, t, u)

LineShape(line, r) ==
    \/ NotMarked(line, r)
    \/ \E m \in 1..Len(line) :
          /\ MarkedAt(line, m)
          /\ \/ InRest(line, r, m)
             \/ \E p \in m + 1..Len(line) :
                   \/ InStatus(line, r, m, p)
                   \/ \E q \in p..Len(line) - 1 :
                         \/ BeforeText(line, r, m, p, q)
                         \/ \E t \in q + 2..Len(line) : \E u \in t..Len(line) :
                               InText(line, r, m, p, q, t, u)

\* The scan: its text has no break in it and no blanks around it, and there
\* are blanks in the gap only behind a text.
ScanOK(r) ==
    /\ r \in [mode : {"start", "ignore", "rest", "status", "text"}, status : Seq(Tokens),
              text : Seq(NoBreak), gap : Seq({"blank"})]
    /\ r.text # << >> => r.text[1] # "blank" /\ r.text[Len(r.text)] # "blank"
    /\ r.mode # "text" \/ r.text = << >> => r.gap = << >>

LastBreak(text, b) == b \in Breaks(text) /\ \A x \in Breaks(text) : x <= b

VerdictInv ==
    /\ reply \in Seq(Tokens)
    /\ steer \in Seq(Tokens) \union {NoText}
    /\ ScanOK(scan)
    /\ \E b \in 0..Len(reply) : LastBreak(reply, b) /\ LineShape(Line(reply, b), scan)
    /\ LastLineDecides
    /\ SteerIsOneLine

-----------------------------------------------------------------------------
(* Slices of a line.                                                       *)

\* The greatest of finitely many numbers.
LEMMA GreatestNumber ==
    ASSUME NEW n \in Nat, NEW T \in SUBSET (0..n), T # {}
    PROVE  \E m \in T : \A k \in T : m >= k
<1> DEFINE Mirror == {d \in Nat : n - d \in T}
<1>1. Mirror \in SUBSET Nat /\ Mirror # {}
    <2>1. PICK k \in T : k \in 0..n
        OBVIOUS
    <2>2. n - k \in Nat /\ n - (n - k) = k
        BY <2>1
    <2> QED
        BY <2>2
<1>2. PICK d \in Mirror : \A e \in Mirror : d <= e
    <2> HIDE DEF Mirror
    <2> QED
        BY <1>1, LeastNumber
<1>3. d \in Nat /\ n - d \in T
    OBVIOUS
<1>4. ASSUME NEW k \in T PROVE n - d >= k
    <2>1. k \in 0..n /\ n - k \in Nat /\ n - (n - k) = k
        OBVIOUS
    <2>2. d <= n - k
        BY <1>2, <2>1
    <2> QED
        BY <1>3, <2>1, <2>2
<1> QED
    BY <1>3, <1>4

\* A member that none exceeds, or undercuts, is Max, or Min.
LEMMA MaxIs ==
    ASSUME NEW T \in SUBSET Int, NEW m \in T, \A k \in T : m >= k
    PROVE  Max(T) = m
<1>1. \E x \in T : \A k \in T : x >= k
    OBVIOUS
<1>2. Max(T) \in T /\ \A k \in T : Max(T) >= k
    BY <1>1 DEF Max
<1>3. PICK x \in T : x = Max(T)
    BY <1>2
<1>4. x >= m /\ m >= x /\ x \in Int /\ m \in Int
    BY <1>2, <1>3
<1> QED
    BY <1>3, <1>4

LEMMA MinIs ==
    ASSUME NEW T \in SUBSET Int, NEW m \in T, \A k \in T : m <= k
    PROVE  Min(T) = m
<1>1. \E x \in T : \A k \in T : x <= k
    OBVIOUS
<1>2. Min(T) \in T /\ \A k \in T : Min(T) <= k
    BY <1>1 DEF Min
<1>3. PICK x \in T : x = Min(T)
    BY <1>2
<1>4. x <= m /\ m <= x /\ x \in Int /\ m \in Int
    BY <1>2, <1>3
<1> QED
    BY <1>3, <1>4

\* What a slice is.
LEMMA Slice ==
    ASSUME NEW S, NEW s \in Seq(S), NEW a \in 1..Len(s) + 1, NEW b \in a - 1..Len(s)
    PROVE  /\ SubSeq(s, a, b) \in Seq(S)
           /\ Len(SubSeq(s, a, b)) = b - a + 1
           /\ \A i \in 1..b - a + 1 : SubSeq(s, a, b)[i] = s[a + i - 1]
<1>1. a \in Int /\ b \in Int /\ \A i \in a..b : s[i] \in S
    OBVIOUS
<1>2. /\ SubSeq(s, a, b) \in Seq(S)
      /\ Len(SubSeq(s, a, b)) = IF a <= b THEN b - a + 1 ELSE 0
      /\ \A i \in 1..b - a + 1 : SubSeq(s, a, b)[i] = s[a + i - 1]
    BY <1>1, SubSeqProperties
<1>3. (IF a <= b THEN b - a + 1 ELSE 0) = b - a + 1
    OBVIOUS
<1> QED
    BY <1>2, <1>3

\* Appending does not change a slice of what was there.
LEMMA SliceOfAppend ==
    ASSUME NEW S, NEW s \in Seq(S), NEW c \in S, NEW b \in 0..Len(s), NEW a \in 1..b + 1
    PROVE  SubSeq(Append(s, c), a, b) = SubSeq(s, a, b)
<1>1. PICK t \in Seq(S) : t = Append(s, c) /\ Len(t) = Len(s) + 1 /\ \A i \in 1..Len(s) : t[i] = s[i]
    <2>1. /\ Append(s, c) \in Seq(S) /\ Len(Append(s, c)) = Len(s) + 1
          /\ \A i \in 1..Len(s) : Append(s, c)[i] = s[i]
        BY AppendProperties
    <2> QED
        BY <2>1
<1>2. a \in 1..Len(s) + 1 /\ b \in a - 1..Len(s) /\ a \in 1..Len(t) + 1 /\ b \in a - 1..Len(t)
    BY <1>1
<1>3. PICK u \in Seq(S) : /\ u = SubSeq(s, a, b) /\ Len(u) = b - a + 1
                          /\ \A i \in 1..b - a + 1 : u[i] = s[a + i - 1]
    <2>1. /\ SubSeq(s, a, b) \in Seq(S) /\ Len(SubSeq(s, a, b)) = b - a + 1
          /\ \A i \in 1..b - a + 1 : SubSeq(s, a, b)[i] = s[a + i - 1]
        BY <1>2, Slice
    <2> QED
        BY <2>1
<1>4. PICK v \in Seq(S) : /\ v = SubSeq(t, a, b) /\ Len(v) = b - a + 1
                          /\ \A i \in 1..b - a + 1 : v[i] = t[a + i - 1]
    <2>1. /\ SubSeq(t, a, b) \in Seq(S) /\ Len(SubSeq(t, a, b)) = b - a + 1
          /\ \A i \in 1..b - a + 1 : SubSeq(t, a, b)[i] = t[a + i - 1]
        BY <1>2, Slice
    <2> QED
        BY <2>1
<1>5. \A i \in 1..b - a + 1 : a + i - 1 \in 1..Len(s)
    OBVIOUS
<1>6. u = v
    BY <1>1, <1>3, <1>4, <1>5
<1> QED
    BY <1>1, <1>3, <1>4, <1>6

\* A slice to the end grows with what is appended.
LEMMA SliceToEnd ==
    ASSUME NEW S, NEW s \in Seq(S), NEW c \in S, NEW a \in 1..Len(s) + 1
    PROVE  SubSeq(Append(s, c), a, Len(s) + 1) = Append(SubSeq(s, a, Len(s)), c)
<1>1. PICK t \in Seq(S) : /\ t = Append(s, c) /\ Len(t) = Len(s) + 1
                          /\ \A i \in 1..Len(s) : t[i] = s[i]
                          /\ t[Len(s) + 1] = c
    BY AppendProperties
<1>2. a \in 1..Len(t) /\ Len(t) \in a..Len(t) /\ Len(t) - 1 = Len(s)
    BY <1>1
<1>3. SubSeq(t, a, Len(t)) = SubSeq(t, a, Len(t) - 1) \o << t[Len(t)] >>
    BY <1>2, SubSeqRecursiveSecond
<1>4. SubSeq(t, a, Len(s)) = SubSeq(s, a, Len(s))
    <2>1. Len(s) \in 0..Len(s)
        OBVIOUS
    <2> QED
        BY <1>1, <2>1, SliceOfAppend
<1>5. PICK u \in Seq(S) : u = SubSeq(s, a, Len(s))
    <2>1. Len(s) \in a - 1..Len(s)
        OBVIOUS
    <2> QED
        BY <2>1, Slice
<1>6. u \o << c >> = Append(u, c)
    BY AppendIsConcat
<1> QED
    BY <1>1, <1>2, <1>3, <1>4, <1>5, <1>6

\* The ends of a slice that is not empty.
LEMMA SliceEnds ==
    ASSUME NEW S, NEW s \in Seq(S), NEW a \in 1..Len(s), NEW b \in a..Len(s)
    PROVE  /\ SubSeq(s, a, b) # << >>
           /\ Head(SubSeq(s, a, b)) = s[a]
           /\ Tail(SubSeq(s, a, b)) = SubSeq(s, a + 1, b)
<1>1. Len(SubSeq(s, a, b)) = b - a + 1 /\ b - a + 1 # 0
    <2>1. a \in 1..Len(s) + 1 /\ b \in a - 1..Len(s)
        OBVIOUS
    <2> QED
        BY <2>1, Slice
<1> QED
    BY <1>1, HeadTailOfSubSeq

\* A line of blanks has nothing to keep.
LEMMA TrimBlank ==
    ASSUME NEW s \in Seq(Tokens), Blanks(s, 1, Len(s))
    PROVE  Trim(s) = << >>
<1>1. {i \in 1..Len(s) : s[i] # "blank"} = {}
    BY DEF Blanks
<1> QED
    BY <1>1 DEF Trim

\* Trimming keeps what is between the first ink and the last.
LEMMA TrimIs ==
    ASSUME NEW s \in Seq(Tokens), NEW i \in 1..Len(s), NEW j \in i..Len(s),
           Blanks(s, 1, i - 1), Blanks(s, j + 1, Len(s)), s[i] # "blank", s[j] # "blank"
    PROVE  Trim(s) = SubSeq(s, i, j)
<1> DEFINE ink == {k \in 1..Len(s) : s[k] # "blank"}
<1>1. /\ ink \in SUBSET Int /\ i \in ink /\ j \in ink
      /\ \A k \in ink : i <= k /\ j >= k
    BY DEF Blanks
<1>2. Min(ink) = i /\ Max(ink) = j
    <2> HIDE DEF ink
    <2> QED
        BY <1>1, MinIs, MaxIs
<1>3. ink # {}
    BY <1>1
<1> QED
    BY <1>2, <1>3 DEF Trim

\* The same of a slice, by the positions in the line.
LEMMA TrimSlice ==
    ASSUME NEW s \in Seq(Tokens), NEW a \in 1..Len(s) + 1, NEW b \in a - 1..Len(s),
           NEW i \in a..b, NEW j \in i..b,
           Blanks(s, a, i - 1), Blanks(s, j + 1, b), s[i] # "blank", s[j] # "blank"
    PROVE  Trim(SubSeq(s, a, b)) = SubSeq(s, i, j)
<1>1. PICK t \in Seq(Tokens) : /\ t = SubSeq(s, a, b) /\ Len(t) = b - a + 1
                               /\ \A k \in 1..b - a + 1 : t[k] = s[a + k - 1]
    <2>1. /\ SubSeq(s, a, b) \in Seq(Tokens) /\ Len(SubSeq(s, a, b)) = b - a + 1
          /\ \A k \in 1..b - a + 1 : SubSeq(s, a, b)[k] = s[a + k - 1]
        BY Slice
    <2> QED
        BY <2>1
<1> DEFINE first == i - a + 1
           last == j - a + 1
<1>2. /\ first \in 1..Len(t) /\ last \in first..Len(t)
      /\ a + first - 1 = i /\ a + last - 1 = j
    BY <1>1
<1>3. t[first] # "blank" /\ t[last] # "blank"
    BY <1>1, <1>2
<1>4. Blanks(t, 1, first - 1)
    BY <1>1 DEF Blanks
<1>5. Blanks(t, last + 1, Len(t))
    BY <1>1 DEF Blanks
<1>6. Trim(t) = SubSeq(t, first, last)
    <2> HIDE DEF first, last
    <2> QED
        BY <1>2, <1>3, <1>4, <1>5, TrimIs
<1>7. SubSeq(t, first, last) = SubSeq(s, a + first - 1, a + last - 1)
    <2>1. /\ a \in 1..Len(s) /\ b \in 1..Len(s)
          /\ first \in 1..b - a + 1 /\ last \in 1..b - a + 1
        BY <1>1
    <2> HIDE DEF first, last
    <2> QED
        BY <1>1, <2>1, SubSeqOfSubSeq
<1> QED
    BY <1>1, <1>2, <1>6, <1>7

-----------------------------------------------------------------------------
(* What the line in progress says.                                         *)

\* A line whose first ink is no marker, or that has none, is no verdict line.
LEMMA NotMarkedLine ==
    ASSUME NEW s \in Seq(Tokens), NEW r, NotMarked(s, r)
    PROVE  ~IsVerdictLine(s)
<1>1. CASE Blanks(s, 1, Len(s))
    BY <1>1, TrimBlank DEF IsVerdictLine
<1>2. ASSUME NEW m \in 1..Len(s), Blanks(s, 1, m - 1), s[m] \notin {"blank", "GOAL_STEP:"}
      PROVE  ~IsVerdictLine(s)
    <2> DEFINE ink == {k \in m..Len(s) : s[k] # "blank"}
    <2>1. m \in ink /\ ink \in SUBSET (0..Len(s)) /\ Len(s) \in Nat
        BY <1>2
    <2>2. PICK e \in ink : \A k \in ink : e >= k
        <3> HIDE DEF ink
        <3> QED
            BY <2>1, GreatestNumber
    <2>3. e \in m..Len(s) /\ s[e] # "blank" /\ Blanks(s, e + 1, Len(s))
        BY <2>2 DEF Blanks
    <2>4. Trim(s) = SubSeq(s, m, e)
        BY <1>2, <2>3, TrimIs
    <2>5. Head(Trim(s)) = s[m]
        BY <2>3, <2>4, SliceEnds
    <2> QED
        BY <1>2, <2>5 DEF IsVerdictLine
<1> QED
    BY <1>1, <1>2 DEF NotMarked

\* A marked line that is trimmed of what follows its last ink, at e.
LEMMA MarkedLine ==
    ASSUME NEW s \in Seq(Tokens), NEW m \in 1..Len(s), MarkedAt(s, m),
           NEW e \in m..Len(s), s[e] # "blank", Blanks(s, e + 1, Len(s))
    PROVE  /\ IsVerdictLine(s)
           /\ Tail(Trim(s)) = SubSeq(s, m + 1, e)
<1>1. Trim(s) = SubSeq(s, m, e)
    BY TrimIs DEF MarkedAt
<1>2. Trim(s) # << >> /\ Head(Trim(s)) = s[m] /\ Tail(Trim(s)) = SubSeq(s, m + 1, e)
    BY <1>1, SliceEnds
<1> QED
    BY <1>2 DEF IsVerdictLine, MarkedAt

\* split_once of a rest that is one word.
LEMMA WordOnly ==
    ASSUME NEW s \in Seq(Tokens), \A k \in 1..Len(s) : s[k] # "blank"
    PROVE  Status(s) = s /\ Remainder(s) = << >>
<1>1. {i \in 1..Len(s) : s[i] = "blank"} = {}
    OBVIOUS
<1>2. Word(s) = 0
    BY <1>1 DEF Word, SelectInSeq
<1> QED
    BY <1>2 DEF Status, Remainder

\* split_once of a rest with a blank behind its first word, at w.
LEMMA WordAndMore ==
    ASSUME NEW s \in Seq(Tokens), NEW w \in 1..Len(s), s[w] = "blank",
           \A k \in 1..w - 1 : s[k] # "blank"
    PROVE  /\ Status(s) = SubSeq(s, 1, w - 1)
           /\ Remainder(s) = Trim(SubSeq(s, w + 1, Len(s)))
<1> DEFINE gaps == {i \in 1..Len(s) : s[i] = "blank"}
<1>1. gaps \in SUBSET Int /\ w \in gaps /\ \A k \in gaps : w <= k
    OBVIOUS
<1>2. Word(s) = IF gaps # {} THEN Min(gaps) ELSE 0
    BY DEF Word, SelectInSeq
<1>3. Word(s) = w
    <2> HIDE DEF gaps
    <2> QED
        BY <1>1, <1>2, MinIs
<1>4. w # 0
    OBVIOUS
<1> QED
    BY <1>3, <1>4 DEF Status, Remainder

\* The verdict of a line with nothing behind the marker.
LEMMA RestSays ==
    ASSUME NEW s \in Seq(Tokens), NEW m \in 1..Len(s), MarkedAt(s, m), Blanks(s, m + 1, Len(s))
    PROVE  IsVerdictLine(s) /\ VerdictOf(s) = Judge(<< >>, << >>)
<1>1. m \in m..Len(s) /\ s[m] # "blank"
    BY DEF MarkedAt
<1>2. IsVerdictLine(s) /\ Tail(Trim(s)) = SubSeq(s, m + 1, m)
    BY <1>1, MarkedLine
<1>3. SubSeq(s, m + 1, m) = << >>
    <2>1. m + 1 \in Int /\ m \in Int /\ m < m + 1
        OBVIOUS
    <2> QED
        BY <2>1, SubSeqEmpty
<1>4. << >> \in Seq(Tokens) /\ Len(<< >>) = 0 /\ 1..0 = {}
    OBVIOUS
<1>5. Trim(<< >>) = << >>
    BY <1>4, TrimBlank DEF Blanks
<1>6. Status(<< >>) = << >> /\ Remainder(<< >>) = << >>
    BY <1>4, WordOnly
<1> QED
    BY <1>2, <1>3, <1>5, <1>6 DEF VerdictOf

\* The verdict of a line with a status word and blanks.
LEMMA StatusSays ==
    ASSUME NEW s \in Seq(Tokens), NEW m \in 1..Len(s), MarkedAt(s, m),
           NEW p \in m + 1..Len(s), NEW q \in p..Len(s), WordAt(s, m, p, q),
           Blanks(s, q + 1, Len(s))
    PROVE  IsVerdictLine(s) /\ VerdictOf(s) = Judge(SubSeq(s, p, q), << >>)
<1>1. q \in m..Len(s) /\ s[q] # "blank" /\ s[p] # "blank"
    BY DEF WordAt
<1>2. IsVerdictLine(s) /\ Tail(Trim(s)) = SubSeq(s, m + 1, q)
    BY <1>1, MarkedLine
<1>3. Trim(SubSeq(s, m + 1, q)) = SubSeq(s, p, q)
    <2>1. /\ m + 1 \in 1..Len(s) + 1 /\ q \in (m + 1) - 1..Len(s)
          /\ p \in m + 1..q /\ q \in p..q
          /\ Blanks(s, m + 1, p - 1) /\ Blanks(s, q + 1, q)
        BY DEF WordAt, Blanks
    <2> QED
        BY <1>1, <2>1, TrimSlice
<1>4. PICK rest \in Seq(Tokens) : /\ rest = SubSeq(s, p, q)
                                  /\ \A k \in 1..Len(rest) : rest[k] # "blank"
    <2>1. p \in 1..Len(s) + 1 /\ q \in p - 1..Len(s)
        OBVIOUS
    <2>2. /\ SubSeq(s, p, q) \in Seq(Tokens) /\ Len(SubSeq(s, p, q)) = q - p + 1
          /\ \A k \in 1..q - p + 1 : SubSeq(s, p, q)[k] = s[p + k - 1]
        BY <2>1, Slice
    <2>3. \A k \in 1..q - p + 1 : p + k - 1 \in p..q
        OBVIOUS
    <2> QED
        BY <2>2, <2>3 DEF WordAt
<1>5. Status(rest) = rest /\ Remainder(rest) = << >>
    BY <1>4, WordOnly
<1> QED
    BY <1>2, <1>3, <1>4, <1>5 DEF VerdictOf

\* The verdict of a line with a status word and a text.
LEMMA TextSays ==
    ASSUME NEW s \in Seq(Tokens), NEW m \in 1..Len(s), MarkedAt(s, m),
           NEW p \in m + 1..Len(s), NEW q \in p..Len(s), WordAt(s, m, p, q),
           NEW t \in q + 2..Len(s), NEW u \in t..Len(s), TextAt(s, q, t, u)
    PROVE  IsVerdictLine(s) /\ VerdictOf(s) = Judge(SubSeq(s, p, q), SubSeq(s, t, u))
<1>1. /\ u \in m..Len(s) /\ s[u] # "blank" /\ s[p] # "blank" /\ s[t] # "blank"
      /\ Blanks(s, u + 1, Len(s)) /\ s[q + 1] = "blank"
    BY DEF WordAt, TextAt, Blanks
<1>2. IsVerdictLine(s) /\ Tail(Trim(s)) = SubSeq(s, m + 1, u)
    BY <1>1, MarkedLine
<1>3. Trim(SubSeq(s, m + 1, u)) = SubSeq(s, p, u)
    <2>1. /\ m + 1 \in 1..Len(s) + 1 /\ u \in (m + 1) - 1..Len(s)
          /\ p \in m + 1..u /\ u \in p..u
          /\ Blanks(s, m + 1, p - 1) /\ Blanks(s, u + 1, u)
        BY DEF WordAt, Blanks
    <2> QED
        BY <1>1, <2>1, TrimSlice
<1>4. PICK rest \in Seq(Tokens) : /\ rest = SubSeq(s, p, u) /\ Len(rest) = u - p + 1
                                  /\ \A k \in 1..u - p + 1 : rest[k] = s[p + k - 1]
    <2>1. p \in 1..Len(s) + 1 /\ u \in p - 1..Len(s)
        OBVIOUS
    <2>2. /\ SubSeq(s, p, u) \in Seq(Tokens) /\ Len(SubSeq(s, p, u)) = u - p + 1
          /\ \A k \in 1..u - p + 1 : SubSeq(s, p, u)[k] = s[p + k - 1]
        BY <2>1, Slice
    <2> QED
        BY <2>2
<1> DEFINE w == q - p + 2
<1>5. /\ w \in 1..Len(rest) /\ p + w - 1 = q + 1 /\ p + (w + 1) - 1 = q + 2
      /\ p + (w - 1) - 1 = q /\ p + Len(rest) - 1 = u
      /\ w - 1 \in 1..Len(rest) /\ w + 1 \in 1..Len(rest)
    BY <1>4
<1>6. rest[w] = "blank" /\ \A k \in 1..w - 1 : rest[k] # "blank"
    <2>1. \A k \in 1..w - 1 : p + k - 1 \in p..q /\ k \in 1..u - p + 1
        OBVIOUS
    <2> QED
        BY <1>1, <1>4, <1>5, <2>1 DEF WordAt
<1> HIDE DEF w
<1>7. /\ Status(rest) = SubSeq(rest, 1, w - 1)
      /\ Remainder(rest) = Trim(SubSeq(rest, w + 1, Len(rest)))
    BY <1>5, <1>6, WordAndMore
<1>8. /\ p \in 1..Len(s) /\ u \in 1..Len(s)
      /\ 1 \in 1..u - p + 1 /\ w - 1 \in 1..u - p + 1 /\ w + 1 \in 1..u - p + 1
      /\ Len(rest) \in 1..u - p + 1 /\ p + 1 - 1 = p
    BY <1>4, <1>5
<1>9. SubSeq(rest, 1, w - 1) = SubSeq(s, p, q)
    BY <1>4, <1>5, <1>8, SubSeqOfSubSeq
<1>10. SubSeq(rest, w + 1, Len(rest)) = SubSeq(s, q + 2, u)
    BY <1>4, <1>5, <1>8, SubSeqOfSubSeq
<1>11. Trim(SubSeq(s, q + 2, u)) = SubSeq(s, t, u)
    <2>1. /\ q + 2 \in 1..Len(s) + 1 /\ u \in (q + 2) - 1..Len(s)
          /\ t \in q + 2..u /\ u \in t..u
          /\ Blanks(s, q + 2, t - 1) /\ Blanks(s, u + 1, u)
        BY DEF TextAt, Blanks
    <2> QED
        BY <1>1, <2>1, TrimSlice
<1> QED
    BY <1>2, <1>3, <1>4, <1>7, <1>9, <1>10, <1>11 DEF VerdictOf

\* What the scan has gathered of the line in progress is what parse_goal_step
\* reads in it.
LEMMA ShapeSays ==
    ASSUME NEW s \in Seq(Tokens), NEW r, LineShape(s, r)
    PROVE  IF r.mode \in {"start", "ignore"} THEN ~IsVerdictLine(s)
           ELSE IsVerdictLine(s) /\ VerdictOf(s) = Judge(r.status, r.text)
<1>1. CASE NotMarked(s, r)
    <2>1. r.mode \in {"start", "ignore"}
        BY <1>1 DEF NotMarked
    <2> QED
        BY <1>1, <2>1, NotMarkedLine
<1>2. ASSUME NEW m \in 1..Len(s), MarkedAt(s, m), InRest(s, r, m)
      PROVE  r.mode = "rest" /\ IsVerdictLine(s) /\ VerdictOf(s) = Judge(r.status, r.text)
    BY <1>2, RestSays DEF InRest
<1>3. ASSUME NEW m \in 1..Len(s), MarkedAt(s, m), NEW p \in m + 1..Len(s), InStatus(s, r, m, p)
      PROVE  r.mode = "status" /\ IsVerdictLine(s) /\ VerdictOf(s) = Judge(r.status, r.text)
    <2>1. Len(s) \in p..Len(s) /\ Blanks(s, Len(s) + 1, Len(s))
        BY DEF Blanks
    <2> QED
        BY <1>3, <2>1, StatusSays DEF InStatus
<1>4. ASSUME NEW m \in 1..Len(s), MarkedAt(s, m), NEW p \in m + 1..Len(s),
             NEW q \in p..Len(s) - 1, BeforeText(s, r, m, p, q)
      PROVE  r.mode = "text" /\ IsVerdictLine(s) /\ VerdictOf(s) = Judge(r.status, r.text)
    <2>1. q \in p..Len(s)
        OBVIOUS
    <2> QED
        BY <1>4, <2>1, StatusSays DEF BeforeText
<1>5. ASSUME NEW m \in 1..Len(s), MarkedAt(s, m), NEW p \in m + 1..Len(s),
             NEW q \in p..Len(s) - 1, NEW t \in q + 2..Len(s), NEW u \in t..Len(s),
             InText(s, r, m, p, q, t, u)
      PROVE  r.mode = "text" /\ IsVerdictLine(s) /\ VerdictOf(s) = Judge(r.status, r.text)
    <2>1. q \in p..Len(s)
        OBVIOUS
    <2> QED
        BY <1>5, <2>1, TextSays DEF InText
<1>6. ASSUME ~NotMarked(s, r)
      PROVE  /\ r.mode \in {"rest", "status", "text"}
             /\ IsVerdictLine(s) /\ VerdictOf(s) = Judge(r.status, r.text)
    BY <1>2, <1>3, <1>4, <1>5, <1>6 DEF LineShape
<1> QED
    BY <1>1, <1>6

-----------------------------------------------------------------------------
(* A token that continues the line.                                        *)

\* What the scan does with it, by its mode.
LEMMA ScanCases ==
    ASSUME NEW r, ScanOK(r), NEW c \in NoBreak
    PROVE  /\ r.mode = "start" /\ c = "GOAL_STEP:" => Scan(r, c) = [Fresh EXCEPT !.mode = "rest"]
           /\ r.mode = "start" /\ c \notin {"blank", "GOAL_STEP:"} =>
                 Scan(r, c) = [r EXCEPT !.mode = "ignore"]
           /\ r.mode = "ignore" \/ (c = "blank" /\ r.mode \in {"start", "rest"}) => Scan(r, c) = r
           /\ r.mode \in {"rest", "status"} /\ c # "blank" =>
                 Scan(r, c) = [r EXCEPT !.mode = "status", !.status = Append(@, c)]
           /\ r.mode = "status" /\ c = "blank" => Scan(r, c) = [r EXCEPT !.mode = "text"]
           /\ r.mode = "text" /\ c = "blank" =>
                 Scan(r, c) = IF r.text = << >> THEN r ELSE [r EXCEPT !.gap = Append(@, c)]
           /\ r.mode = "text" /\ c # "blank" =>
                 Scan(r, c) = [r EXCEPT !.text = Append(@ \o r.gap, c), !.gap = << >>]
<1>1. c # "nl" /\ c \in Tokens
    BY DEF NoBreak
<1>2. r.mode \in {"start", "ignore", "rest", "status", "text"}
    BY DEF ScanOK
<1>3. CASE r.mode = "start"
    BY <1>1, <1>3 DEF Scan
<1>4. CASE r.mode = "ignore"
    BY <1>1, <1>4 DEF Scan
<1>5. CASE r.mode = "rest"
    BY <1>1, <1>5 DEF Scan
<1>6. CASE r.mode = "status"
    BY <1>1, <1>6 DEF Scan
<1>7. CASE r.mode = "text"
    BY <1>1, <1>7 DEF Scan
<1> QED
    BY <1>2, <1>3, <1>4, <1>5, <1>6, <1>7

\* What is gathered stays clean: neither breaks in it nor blanks around it.
LEMMA ScanOKNext ==
    ASSUME NEW r, ScanOK(r), NEW c \in Tokens
    PROVE  ScanOK(Scan(r, c))
<1> DEFINE modes == {"start", "ignore", "rest", "status", "text"}
<1>1. /\ r \in [mode : modes, status : Seq(Tokens), text : Seq(NoBreak), gap : Seq({"blank"})]
      /\ r.text # << >> => r.text[1] # "blank" /\ r.text[Len(r.text)] # "blank"
      /\ r.mode # "text" \/ r.text = << >> => r.gap = << >>
    BY DEF ScanOK
<1>2. /\ << >> \in Seq({"blank"}) /\ << >> \in Seq(NoBreak) /\ << >> \in Seq(Tokens)
    OBVIOUS
<1>3. CASE c = "nl"
    <2>1. Scan(r, c) = [r EXCEPT !.mode = "start", !.gap = << >>]
        BY <1>3 DEF Scan
    <2> QED
        BY <1>1, <1>2, <2>1 DEF ScanOK
<1>4. CASE c # "nl" /\ (r.mode = "ignore" \/ (c = "blank" /\ r.mode \in {"start", "rest"}))
    <2>1. Scan(r, c) = r
        BY <1>4, ScanCases DEF NoBreak
    <2> QED
        BY <2>1
<1>5. CASE c = "GOAL_STEP:" /\ r.mode = "start"
    <2>1. Scan(r, c) = [Fresh EXCEPT !.mode = "rest"]
        BY <1>5, ScanCases DEF NoBreak
    <2> QED
        BY <1>2, <2>1 DEF ScanOK, Fresh
<1>6. CASE c \notin {"nl", "blank", "GOAL_STEP:"} /\ r.mode = "start"
    <2>1. Scan(r, c) = [r EXCEPT !.mode = "ignore"]
        BY <1>6, ScanCases DEF NoBreak
    <2> QED
        BY <1>1, <1>6, <2>1 DEF ScanOK
<1>7. CASE c \notin {"nl", "blank"} /\ r.mode \in {"rest", "status"}
    <2>1. Scan(r, c) = [r EXCEPT !.mode = "status", !.status = Append(r.status, c)]
        BY <1>7, ScanCases DEF NoBreak
    <2>2. Append(r.status, c) \in Seq(Tokens)
        BY <1>1
    <2> QED
        BY <1>1, <1>7, <2>1, <2>2 DEF ScanOK
<1>8. CASE c = "blank" /\ r.mode = "status"
    <2>1. Scan(r, c) = [r EXCEPT !.mode = "text"]
        BY <1>8, ScanCases DEF NoBreak
    <2> QED
        BY <1>1, <1>8, <2>1 DEF ScanOK
<1>9. CASE c = "blank" /\ r.mode = "text"
    <2>1. Scan(r, c) = IF r.text = << >> THEN r ELSE [r EXCEPT !.gap = Append(r.gap, c)]
        BY <1>9, ScanCases DEF NoBreak
    <2>2. Append(r.gap, c) \in Seq({"blank"})
        BY <1>1, <1>9
    <2> QED
        BY <1>1, <1>9, <2>1, <2>2 DEF ScanOK
<1>10. CASE c \notin {"nl", "blank"} /\ r.mode = "text"
    <2>1. PICK a \in Seq(NoBreak) : a = r.text
        BY <1>1
    <2>2. PICK g \in Seq(NoBreak) : g = r.gap
        <3>1. {"blank"} \subseteq NoBreak
            BY DEF NoBreak, Tokens
        <3> QED
            BY <1>1, <3>1
    <2>3. c \in NoBreak
        BY <1>10 DEF NoBreak
    <2>4. PICK b \in Seq(NoBreak) : /\ b = a \o g /\ Len(b) = Len(a) + Len(g)
                                    /\ \A i \in 1..Len(a) : b[i] = a[i]
        <3>1. /\ a \o g \in Seq(NoBreak) /\ Len(a \o g) = Len(a) + Len(g)
              /\ \A i \in 1..Len(a) + Len(g) : (a \o g)[i] = IF i <= Len(a) THEN a[i] ELSE g[i - Len(a)]
            BY ConcatProperties
        <3>2. \A i \in 1..Len(a) : i \in 1..Len(a) + Len(g) /\ i <= Len(a)
            OBVIOUS
        <3>3. \A i \in 1..Len(a) : (a \o g)[i] = a[i]
            BY <3>1, <3>2
        <3> QED
            BY <3>1, <3>3
    <2>5. PICK d \in Seq(NoBreak) : /\ d = Append(b, c) /\ Len(d) = Len(b) + 1
                                    /\ \A i \in 1..Len(b) : d[i] = b[i]
                                    /\ d[Len(b) + 1] = c
        <3>1. /\ Append(b, c) \in Seq(NoBreak) /\ Len(Append(b, c)) = Len(b) + 1
              /\ \A i \in 1..Len(b) : Append(b, c)[i] = b[i]
              /\ Append(b, c)[Len(b) + 1] = c
            BY <2>3, AppendProperties
        <3> QED
            BY <3>1
    <2>6. Scan(r, c) = [r EXCEPT !.text = d, !.gap = << >>]
        <3>1. Scan(r, c) = [r EXCEPT !.text = Append(r.text \o r.gap, c), !.gap = << >>]
            BY <1>10, <2>3, ScanCases
        <3>2. Append(r.text \o r.gap, c) = d
            BY <2>1, <2>2, <2>4, <2>5, Zenon
        <3> QED
            BY <3>1, <3>2, Zenon
    <2>7. d[Len(d)] # "blank"
        BY <1>10, <2>5
    <2>8. d[1] # "blank"
        <3>1. CASE a = << >>
            <4>1. g = << >> /\ Len(a) = 0 /\ Len(g) = 0
                BY <1>1, <2>1, <2>2, <3>1
            <4> QED
                BY <1>10, <2>4, <2>5, <4>1
        <3>2. CASE a # << >>
            <4>1. 1 \in 1..Len(a) /\ a[1] # "blank"
                BY <1>1, <2>1, <3>2
            <4> QED
                BY <2>4, <2>5, <4>1
        <3> QED
            BY <3>1, <3>2
    <2> QED
        BY <1>1, <1>2, <1>10, <2>6, <2>7, <2>8 DEF ScanOK
<1> QED
    BY <1>1, <1>3, <1>4, <1>5, <1>6, <1>7, <1>8, <1>9, <1>10

\* Blanks in a line that grows.
LEMMA BlanksOfAppend ==
    ASSUME NEW s \in Seq(Tokens), NEW c \in Tokens
    PROVE  /\ \A i \in 1..Len(s) + 1 : \A j \in 0..Len(s) :
                 Blanks(s, i, j) => Blanks(Append(s, c), i, j)
           /\ c = "blank" => \A i \in 1..Len(s) + 1 :
                 Blanks(s, i, Len(s)) => Blanks(Append(s, c), i, Len(s) + 1)
<1>1. /\ Append(s, c) \in Seq(Tokens) /\ Len(Append(s, c)) = Len(s) + 1
      /\ \A i \in 1..Len(s) : Append(s, c)[i] = s[i]
      /\ Append(s, c)[Len(s) + 1] = c
    BY AppendProperties
<1>2. ASSUME NEW i \in 1..Len(s) + 1, NEW j \in 0..Len(s), Blanks(s, i, j)
      PROVE  Blanks(Append(s, c), i, j)
    BY <1>1, <1>2 DEF Blanks
<1>3. ASSUME c = "blank", NEW i \in 1..Len(s) + 1, Blanks(s, i, Len(s))
      PROVE  Blanks(Append(s, c), i, Len(s) + 1)
    <2> SUFFICES ASSUME NEW k \in i..Len(s) + 1 PROVE Append(s, c)[k] = "blank"
        BY DEF Blanks
    <2>1. CASE k = Len(s) + 1
        BY <1>1, <1>3, <2>1
    <2>2. CASE k \in i..Len(s)
        BY <1>1, <1>3, <2>2 DEF Blanks
    <2> QED
        BY <2>1, <2>2
<1> QED
    BY <1>2, <1>3

\* The scan goes on saying what the line in progress says.
LEMMA ShapeNext ==
    ASSUME NEW s \in Seq(Tokens), NEW r, ScanOK(r), LineShape(s, r), NEW c \in NoBreak
    PROVE  LineShape(Append(s, c), Scan(r, c))
<1> DEFINE n == Len(s)
<1>1. PICK s2 \in Seq(Tokens) : /\ s2 = Append(s, c) /\ Len(s2) = n + 1
                                /\ \A i \in 1..n : s2[i] = s[i]
                                /\ s2[n + 1] = c
    <2>1. c \in Tokens
        BY DEF NoBreak
    <2>2. /\ Append(s, c) \in Seq(Tokens) /\ Len(Append(s, c)) = Len(s) + 1
          /\ \A i \in 1..Len(s) : Append(s, c)[i] = s[i]
          /\ Append(s, c)[Len(s) + 1] = c
        BY <2>1, AppendProperties
    <2> QED
        BY <2>2
<1>2. /\ \A i \in 1..n + 1 : \A j \in 0..n : Blanks(s, i, j) => Blanks(s2, i, j)
      /\ c = "blank" => \A i \in 1..n + 1 : Blanks(s, i, n) => Blanks(s2, i, n + 1)
    BY <1>1, BlanksOfAppend DEF NoBreak
<1>3. /\ \A b \in 0..n : \A a \in 1..b + 1 : SubSeq(s2, a, b) = SubSeq(s, a, b)
      /\ \A a \in 1..n + 1 : SubSeq(s2, a, n + 1) = Append(SubSeq(s, a, n), c)
    BY <1>1, SliceOfAppend, SliceToEnd DEF NoBreak
<1>4. SubSeq(s, n + 1, n) = << >> /\ SubSeq(s2, n + 2, n + 1) = << >>
    <2>1. n \in Int /\ n + 1 \in Int /\ n + 2 \in Int /\ n < n + 1 /\ n + 1 < n + 2
        OBVIOUS
    <2> QED
        BY <2>1, SubSeqEmpty
<1>5. /\ r.status \in Seq(Tokens) /\ r.text \in Seq(NoBreak) /\ r.gap \in Seq({"blank"})
      /\ r \in [mode : {"start", "ignore", "rest", "status", "text"}, status : Seq(Tokens),
                text : Seq(NoBreak), gap : Seq({"blank"})]
    BY DEF ScanOK
<1>6. n \in Nat
    OBVIOUS
<1>end. n \in 0..n /\ n + 1 \in 1..n + 1
    BY <1>6
<1> HIDE DEF n
<1>7. CASE NotMarked(s, r)
    <2>1. CASE r.mode = "start"
        <3>1. Blanks(s, 1, n)
            BY <1>7, <2>1 DEF NotMarked, n
        <3>2. CASE c = "blank"
            <4>1. Scan(r, c) = r
                BY <2>1, <3>2, ScanCases
            <4>2. Blanks(s2, 1, n + 1)
                BY <1>2, <1>6, <3>1, <3>2
            <4> QED
                BY <1>1, <2>1, <4>1, <4>2 DEF LineShape, NotMarked
        <3>3. CASE c = "GOAL_STEP:"
            <4>1. Scan(r, c) = [Fresh EXCEPT !.mode = "rest"]
                BY <2>1, <3>3, ScanCases
            <4>2. Blanks(s2, 1, (n + 1) - 1) /\ n + 1 \in 1..Len(s2)
                BY <1>1, <1>2, <1>6, <3>1
            <4>3. MarkedAt(s2, n + 1)
                BY <1>1, <3>3, <4>2 DEF MarkedAt
            <4>4. InRest(s2, Scan(r, c), n + 1)
                BY <1>1, <1>6, <4>1 DEF InRest, Blanks, Fresh
            <4> QED
                BY <1>1, <4>2, <4>3, <4>4 DEF LineShape
        <3>4. CASE c \notin {"blank", "GOAL_STEP:"}
            <4>1. Scan(r, c) = [r EXCEPT !.mode = "ignore"]
                BY <2>1, <3>4, ScanCases
            <4>2. Scan(r, c).mode = "ignore"
                BY <1>5, <4>1
            <4>3. Blanks(s2, 1, (n + 1) - 1) /\ n + 1 \in 1..Len(s2)
                BY <1>1, <1>2, <1>6, <3>1
            <4> QED
                BY <1>1, <3>4, <4>2, <4>3 DEF LineShape, NotMarked
        <3> QED
            BY <3>2, <3>3, <3>4
    <2>2. CASE r.mode = "ignore"
        <3>1. PICK m \in 1..n : Blanks(s, 1, m - 1) /\ s[m] \notin {"blank", "GOAL_STEP:"}
            BY <1>7, <2>2 DEF NotMarked, n
        <3>2. m \in 1..Len(s2) /\ Blanks(s2, 1, m - 1) /\ s2[m] = s[m]
            BY <1>1, <1>2, <1>6, <3>1
        <3>3. Scan(r, c) = r
            BY <2>2, ScanCases
        <3> QED
            BY <1>1, <2>2, <3>1, <3>2, <3>3 DEF LineShape, NotMarked
    <2> QED
        BY <1>7, <2>1, <2>2 DEF NotMarked
<1>8. ASSUME NEW m \in 1..n, MarkedAt(s, m)
      PROVE  m \in 1..Len(s2) /\ MarkedAt(s2, m)
    BY <1>1, <1>2, <1>6, <1>8 DEF MarkedAt
<1>9. ASSUME NEW m \in 1..n, NEW p \in m + 1..n, NEW q \in p..n, WordAt(s, m, p, q)
      PROVE  WordAt(s2, m, p, q)
    <2>1. \A k \in p..q : k \in 1..n
        BY <1>6
    <2>2. m + 1 \in 1..n + 1 /\ p - 1 \in 0..n
        BY <1>6
    <2>3. \A k \in p..q : s2[k] = s[k]
        BY <1>1, <2>1
    <2>4. Blanks(s2, m + 1, p - 1)
        BY <1>2, <1>9, <2>2 DEF WordAt
    <2> QED
        BY <1>9, <2>3, <2>4 DEF WordAt
<1>10. ASSUME NEW m \in 1..n, MarkedAt(s, m), InRest(s, r, m)
       PROVE  LineShape(s2, Scan(r, c))
    <2>1. /\ r.mode = "rest" /\ r.status = << >> /\ r.text = << >> /\ Blanks(s, m + 1, n)
          /\ m \in 1..Len(s2) /\ MarkedAt(s2, m)
        BY <1>8, <1>10 DEF InRest, n
    <2>2. CASE c = "blank"
        <3>1. Scan(r, c) = r
            BY <2>1, <2>2, ScanCases
        <3>2. Blanks(s2, m + 1, n + 1)
            BY <1>2, <1>6, <2>1, <2>2
        <3>3. InRest(s2, Scan(r, c), m)
            BY <1>1, <2>1, <3>1, <3>2 DEF InRest
        <3> QED
            BY <2>1, <3>3 DEF LineShape
    <2>3. CASE c # "blank"
        <3>1. Scan(r, c) = [r EXCEPT !.mode = "status", !.status = Append(r.status, c)]
            BY <2>1, <2>3, ScanCases
        <3>2. Scan(r, c).mode = "status" /\ Scan(r, c).status = Append(<< >>, c)
              /\ Scan(r, c).text = << >>
            BY <1>5, <2>1, <3>1
        <3>3. SubSeq(s2, n + 1, n + 1) = Append(<< >>, c)
            BY <1>3, <1>4, <1>end
        <3>4. WordAt(s2, m, n + 1, n + 1)
            <4>1. Blanks(s2, m + 1, (n + 1) - 1)
                BY <1>2, <1>6, <2>1
            <4> QED
                BY <1>1, <1>6, <2>3, <4>1 DEF WordAt
        <3>5. n + 1 \in m + 1..Len(s2)
            BY <1>1, <1>6
        <3>6. InStatus(s2, Scan(r, c), m, n + 1)
            BY <1>1, <3>2, <3>3, <3>4 DEF InStatus
        <3> QED
            BY <2>1, <3>5, <3>6 DEF LineShape
    <2> QED
        BY <2>2, <2>3
<1>11. ASSUME NEW m \in 1..n, MarkedAt(s, m), NEW p \in m + 1..n, InStatus(s, r, m, p)
       PROVE  LineShape(s2, Scan(r, c))
    <2>1. /\ r.mode = "status" /\ r.text = << >> /\ WordAt(s, m, p, n) /\ r.status = SubSeq(s, p, n)
          /\ m \in 1..Len(s2) /\ MarkedAt(s2, m) /\ p \in m + 1..Len(s2)
        BY <1>1, <1>8, <1>11 DEF InStatus, n
    <2>2. WordAt(s2, m, p, n) /\ n \in p..Len(s2) - 1
        BY <1>1, <1>6, <1>9, <2>1
    <2>3. CASE c = "blank"
        <3>1. Scan(r, c) = [r EXCEPT !.mode = "text"]
            BY <2>1, <2>3, ScanCases
        <3>2. /\ Scan(r, c).mode = "text" /\ Scan(r, c).text = << >>
              /\ Scan(r, c).status = SubSeq(s, p, n)
            BY <1>5, <2>1, <3>1
        <3>3. SubSeq(s2, p, n) = SubSeq(s, p, n)
            <4>1. p \in 1..n + 1
                BY <1>6
            <4> QED
                BY <1>3, <1>end, <4>1
        <3>4. Blanks(s2, n + 1, n + 1)
            BY <1>1, <1>6, <2>3 DEF Blanks
        <3>5. BeforeText(s2, Scan(r, c), m, p, n)
            BY <1>1, <2>2, <3>2, <3>3, <3>4 DEF BeforeText
        <3> QED
            BY <2>1, <2>2, <3>5 DEF LineShape
    <2>4. CASE c # "blank"
        <3>1. Scan(r, c) = [r EXCEPT !.mode = "status", !.status = Append(r.status, c)]
            BY <2>1, <2>4, ScanCases
        <3>2. /\ Scan(r, c).mode = "status" /\ Scan(r, c).text = << >>
              /\ Scan(r, c).status = Append(SubSeq(s, p, n), c)
            BY <1>5, <2>1, <3>1
        <3>3. SubSeq(s2, p, n + 1) = Append(SubSeq(s, p, n), c)
            BY <1>3, <1>6
        <3>4. WordAt(s2, m, p, n + 1)
            <4>1. \A k \in p..n + 1 : k \in p..n \/ k = n + 1
                BY <1>6
            <4> QED
                BY <1>1, <2>2, <2>4, <4>1 DEF WordAt
        <3>5. InStatus(s2, Scan(r, c), m, p)
            BY <1>1, <3>2, <3>3, <3>4 DEF InStatus
        <3> QED
            BY <2>1, <3>5 DEF LineShape
    <2> QED
        BY <2>3, <2>4
<1>12. ASSUME NEW m \in 1..n, MarkedAt(s, m), NEW p \in m + 1..n, NEW q \in p..n - 1,
              BeforeText(s, r, m, p, q)
       PROVE  LineShape(s2, Scan(r, c))
    <2>1. /\ r.mode = "text" /\ r.text = << >> /\ WordAt(s, m, p, q) /\ r.status = SubSeq(s, p, q)
          /\ Blanks(s, q + 1, n) /\ q \in p..n
          /\ m \in 1..Len(s2) /\ MarkedAt(s2, m) /\ p \in m + 1..Len(s2) /\ q \in p..Len(s2) - 1
        BY <1>1, <1>6, <1>8, <1>12 DEF BeforeText, n
    <2>2. WordAt(s2, m, p, q) /\ SubSeq(s2, p, q) = SubSeq(s, p, q)
        <3>1. q \in 0..n /\ p \in 1..q + 1
            BY <1>6, <2>1
        <3> QED
            BY <1>3, <1>9, <2>1, <3>1
    <2>3. CASE c = "blank"
        <3>1. Scan(r, c) = r
            BY <2>1, <2>3, ScanCases
        <3>2. Blanks(s2, q + 1, n + 1)
            BY <1>2, <1>6, <2>1, <2>3
        <3>3. BeforeText(s2, Scan(r, c), m, p, q)
            BY <1>1, <2>1, <2>2, <3>1, <3>2 DEF BeforeText
        <3> QED
            BY <2>1, <3>3 DEF LineShape
    <2>4. CASE c # "blank"
        <3>1. Scan(r, c) = [r EXCEPT !.text = Append(r.text \o r.gap, c), !.gap = << >>]
            BY <2>1, <2>4, ScanCases
        <3>2. r.gap = << >> /\ << >> \o << >> = << >>
            BY <2>1 DEF ScanOK
        <3>3. /\ Scan(r, c).mode = "text" /\ Scan(r, c).text = Append(<< >>, c)
              /\ Scan(r, c).gap = << >> /\ Scan(r, c).status = SubSeq(s, p, q)
            BY <1>5, <2>1, <3>1, <3>2
        <3>4. SubSeq(s2, n + 1, n + 1) = Append(<< >>, c)
            BY <1>3, <1>4, <1>end
        <3>5. TextAt(s2, q, n + 1, n + 1)
            <4>1. q + 1 \in 1..n + 1 /\ (n + 1) - 1 = n
                BY <1>6, <2>1
            <4>2. Blanks(s2, q + 1, (n + 1) - 1)
                BY <1>2, <1>end, <2>1, <4>1
            <4>3. Blanks(s2, (n + 1) + 1, n + 1)
                BY <1>6 DEF Blanks
            <4> QED
                BY <1>1, <2>4, <4>2, <4>3 DEF TextAt
        <3>6. n + 1 \in q + 2..Len(s2) /\ n + 1 \in n + 1..Len(s2) /\ (n + 1) + 1 = n + 2
            BY <1>1, <1>6
        <3>7. InText(s2, Scan(r, c), m, p, q, n + 1, n + 1)
            BY <1>1, <1>4, <2>2, <3>3, <3>4, <3>5, <3>6 DEF InText
        <3> QED
            BY <2>1, <3>6, <3>7 DEF LineShape
    <2> QED
        BY <2>3, <2>4
<1>13. ASSUME NEW m \in 1..n, MarkedAt(s, m), NEW p \in m + 1..n, NEW q \in p..n - 1,
              NEW t \in q + 2..n, NEW u \in t..n, InText(s, r, m, p, q, t, u)
       PROVE  LineShape(s2, Scan(r, c))
    <2>1. /\ r.mode = "text" /\ r.text = SubSeq(s, t, u) /\ r.gap = SubSeq(s, u + 1, n)
          /\ WordAt(s, m, p, q) /\ r.status = SubSeq(s, p, q) /\ TextAt(s, q, t, u)
          /\ q \in p..n
          /\ m \in 1..Len(s2) /\ MarkedAt(s2, m) /\ p \in m + 1..Len(s2) /\ q \in p..Len(s2) - 1
          /\ t \in q + 2..Len(s2)
        BY <1>1, <1>6, <1>8, <1>13 DEF InText, n
    <2>2. WordAt(s2, m, p, q) /\ SubSeq(s2, p, q) = SubSeq(s, p, q)
        <3>1. q \in 0..n /\ p \in 1..q + 1
            BY <1>6, <2>1
        <3> QED
            BY <1>3, <1>9, <2>1, <3>1
    <2>3. Blanks(s2, q + 1, t - 1) /\ s2[t] # "blank" /\ s2[u] # "blank" /\ Blanks(s, u + 1, n)
        <3>1. q + 1 \in 1..n + 1 /\ t - 1 \in 0..n /\ t \in 1..n /\ u \in 1..n
            BY <1>6
        <3>2. Blanks(s, q + 1, t - 1) /\ s[t] # "blank" /\ s[u] # "blank" /\ Blanks(s, u + 1, n)
            BY <2>1 DEF TextAt, n
        <3> QED
            BY <1>1, <1>2, <3>1, <3>2
    <2>4. CASE c = "blank"
        <3>1. r.text # << >>
            <4>1. t \in 1..Len(s) /\ u \in t..Len(s)
                BY <1>6 DEF n
            <4> QED
                BY <2>1, <4>1, SliceEnds
        <3>2. Scan(r, c) = [r EXCEPT !.gap = Append(r.gap, c)]
            BY <2>1, <2>4, <3>1, ScanCases
        <3>3. /\ Scan(r, c).mode = "text" /\ Scan(r, c).text = SubSeq(s, t, u)
              /\ Scan(r, c).gap = Append(SubSeq(s, u + 1, n), c)
              /\ Scan(r, c).status = SubSeq(s, p, q)
            BY <1>5, <2>1, <3>2
        <3>4. SubSeq(s2, t, u) = SubSeq(s, t, u)
            <4>1. u \in 0..n /\ t \in 1..u + 1
                BY <1>6
            <4> QED
                BY <1>3, <4>1
        <3>5. SubSeq(s2, u + 1, n + 1) = Append(SubSeq(s, u + 1, n), c)
            BY <1>3, <1>6
        <3>6. Blanks(s2, u + 1, n + 1)
            BY <1>2, <1>6, <2>3, <2>4
        <3>7. TextAt(s2, q, t, u)
            BY <1>1, <2>3, <3>6 DEF TextAt
        <3>8. InText(s2, Scan(r, c), m, p, q, t, u)
            BY <1>1, <2>2, <3>3, <3>4, <3>5, <3>7 DEF InText
        <3>9. u \in t..Len(s2)
            BY <1>1, <1>6
        <3> QED
            BY <2>1, <3>8, <3>9 DEF LineShape
    <2>5. CASE c # "blank"
        <3>1. Scan(r, c) = [r EXCEPT !.text = Append(r.text \o r.gap, c), !.gap = << >>]
            BY <2>1, <2>5, ScanCases
        <3>2. /\ Scan(r, c).mode = "text" /\ Scan(r, c).gap = << >>
              /\ Scan(r, c).text = Append(r.text \o r.gap, c)
              /\ Scan(r, c).status = SubSeq(s, p, q)
            BY <1>5, <2>1, <3>1
        <3>3. SubSeq(s, t, u) \o SubSeq(s, u + 1, n) = SubSeq(s, t, n)
            <4>1. t \in 1..Len(s) + 1 /\ u \in t - 1..Len(s) /\ n \in u..Len(s)
                BY <1>6 DEF n
            <4> QED
                BY <4>1, ConcatAdjacentSubSeq
        <3>4. SubSeq(s2, t, n + 1) = Append(SubSeq(s, t, n), c)
            BY <1>3, <1>6
        <3>5. Scan(r, c).text = SubSeq(s2, t, n + 1)
            BY <2>1, <3>2, <3>3, <3>4, Zenon
        <3>6. TextAt(s2, q, t, n + 1)
            BY <1>1, <1>6, <2>3, <2>5 DEF TextAt, Blanks
        <3>7. n + 1 \in t..Len(s2) /\ (n + 1) + 1 = n + 2
            BY <1>1, <1>6
        <3>8. InText(s2, Scan(r, c), m, p, q, t, n + 1)
            BY <1>1, <1>4, <2>2, <3>2, <3>5, <3>6, <3>7 DEF InText
        <3> QED
            BY <2>1, <3>7, <3>8 DEF LineShape
    <2> QED
        BY <2>4, <2>5
<1> QED
    BY <1>1, <1>7, <1>10, <1>11, <1>12, <1>13 DEF LineShape, n

-----------------------------------------------------------------------------
(* The lines of a text that grows.                                         *)

\* Where the line that begins at b ends.
EndsAt(text, b, e) ==
    /\ e \in Breaks(text) \union {Len(text) + 1}
    /\ e > b
    /\ \A x \in Breaks(text) : x > b => e <= x

LEMMA BreaksAreNumbers ==
    ASSUME NEW t \in Seq(Tokens)
    PROVE  Breaks(t) \subseteq 0..Len(t) /\ 0 \in Breaks(t)
BY DEF Breaks

LEMMA BreaksOfAppend ==
    ASSUME NEW t \in Seq(Tokens), NEW c \in Tokens
    PROVE  Breaks(Append(t, c)) = Breaks(t) \union (IF c = "nl" THEN {Len(t) + 1} ELSE {})
<1>1. /\ Append(t, c) \in Seq(Tokens) /\ Len(Append(t, c)) = Len(t) + 1
      /\ \A i \in 1..Len(t) : Append(t, c)[i] = t[i]
      /\ Append(t, c)[Len(t) + 1] = c
    BY AppendProperties
<1>2. PICK t2 \in Seq(Tokens) : /\ t2 = Append(t, c) /\ Len(t2) = Len(t) + 1
                                /\ \A i \in 1..Len(t) : t2[i] = t[i]
                                /\ t2[Len(t) + 1] = c
    BY <1>1
<1>3. 1..Len(t2) = 1..Len(t) \union {Len(t) + 1}
    BY <1>2
<1>4. Breaks(t2) = {0} \union {i \in 1..Len(t) \union {Len(t) + 1} : t2[i] = "nl"}
    BY <1>3 DEF Breaks
<1>5. Breaks(t2) = Breaks(t) \union (IF c = "nl" THEN {Len(t) + 1} ELSE {})
    BY <1>2, <1>4 DEF Breaks
<1> QED
    BY <1>2, <1>5

LEMMA LineTo ==
    ASSUME NEW t \in Seq(Tokens), NEW b \in Breaks(t), NEW e, EndsAt(t, b, e)
    PROVE  /\ Line(t, b) = SubSeq(t, b + 1, e - 1)
           /\ Line(t, b) \in Seq(Tokens)
           /\ e - 1 \in 0..Len(t) /\ b + 1 \in 1..(e - 1) + 1
<1> DEFINE ends == {i \in Breaks(t) : i > b} \union {Len(t) + 1}
<1>1. Breaks(t) \subseteq 0..Len(t) /\ Len(t) \in Nat /\ b \in 0..Len(t)
    BY BreaksAreNumbers
<1>2. ends \in SUBSET Int /\ e \in ends /\ \A k \in ends : e <= k
    BY <1>1 DEF EndsAt
<1>3. Min(ends) = e
    <2> HIDE DEF ends
    <2> QED
        BY <1>2, MinIs
<1>4. Line(t, b) = SubSeq(t, b + 1, e - 1)
    BY <1>3 DEF Line
<1>5. /\ e - 1 \in 0..Len(t) /\ b + 1 \in 1..(e - 1) + 1
      /\ b + 1 \in 1..Len(t) + 1 /\ e - 1 \in (b + 1) - 1..Len(t)
    BY <1>1, <1>2
<1>6. SubSeq(t, b + 1, e - 1) \in Seq(Tokens)
    BY <1>5, Slice
<1> QED
    BY <1>4, <1>5, <1>6

LEMMA LineEnds ==
    ASSUME NEW t \in Seq(Tokens), NEW b \in Breaks(t)
    PROVE  \E e \in Nat : EndsAt(t, b, e)
<1> DEFINE ends == {i \in Breaks(t) : i > b} \union {Len(t) + 1}
<1>1. Breaks(t) \subseteq 0..Len(t) /\ Len(t) \in Nat /\ b \in 0..Len(t)
    BY BreaksAreNumbers
<1>2. ends \in SUBSET Nat /\ ends # {} /\ \A k \in ends : k > b
    BY <1>1
<1>3. PICK e \in ends : \A k \in ends : e <= k
    <2> HIDE DEF ends
    <2> QED
        BY <1>2, LeastNumber
<1>4. e \in Nat /\ e > b
    <2> HIDE DEF ends
    <2> QED
        BY <1>2
<1>5. e \in Breaks(t) \union {Len(t) + 1} /\ \A x \in Breaks(t) : x > b => e <= x
    BY <1>3
<1> QED
    BY <1>4, <1>5 DEF EndsAt

\* A line that is over does not change.
LEMMA LineSame ==
    ASSUME NEW t \in Seq(Tokens), NEW c \in Tokens, NEW b \in Breaks(t),
           c = "nl" \/ \E x \in Breaks(t) : x > b
    PROVE  b \in Breaks(Append(t, c)) /\ Line(Append(t, c), b) = Line(t, b)
<1>1. PICK e \in Nat : EndsAt(t, b, e)
    BY LineEnds
<1>2. PICK t2 \in Seq(Tokens) : t2 = Append(t, c) /\ Len(t2) = Len(t) + 1
    <2>1. Append(t, c) \in Seq(Tokens) /\ Len(Append(t, c)) = Len(t) + 1
        BY AppendProperties
    <2> QED
        BY <2>1
<1>3. Breaks(t2) = Breaks(t) \union (IF c = "nl" THEN {Len(t) + 1} ELSE {})
    BY <1>2, BreaksOfAppend
<1>4. Breaks(t) \subseteq 0..Len(t) /\ Len(t) \in Nat /\ b \in 0..Len(t)
    BY BreaksAreNumbers
<1>5. EndsAt(t2, b, e)
    <2>1. e \in Breaks(t2)
        BY <1>1, <1>3, <1>4 DEF EndsAt
    <2>2. e <= Len(t) + 1
        BY <1>1, <1>4 DEF EndsAt
    <2>3. \A x \in Breaks(t2) : x > b => e <= x
        BY <1>1, <1>3, <2>2 DEF EndsAt
    <2> QED
        BY <1>1, <2>1, <2>3 DEF EndsAt
<1>6. b \in Breaks(t2)
    BY <1>3
<1>7. Line(t2, b) = SubSeq(t2, b + 1, e - 1)
    BY <1>5, <1>6, LineTo
<1>8. Line(t, b) = SubSeq(t, b + 1, e - 1) /\ e - 1 \in 0..Len(t) /\ b + 1 \in 1..(e - 1) + 1
    BY <1>1, LineTo
<1>9. SubSeq(t2, b + 1, e - 1) = SubSeq(t, b + 1, e - 1)
    BY <1>2, <1>8, SliceOfAppend
<1> QED
    BY <1>2, <1>6, <1>7, <1>8, <1>9

\* The last line is what follows the last break.
LEMMA LastLine ==
    ASSUME NEW t \in Seq(Tokens), NEW b, LastBreak(t, b)
    PROVE  /\ Line(t, b) = SubSeq(t, b + 1, Len(t)) /\ Line(t, b) \in Seq(Tokens)
           /\ b \in 0..Len(t) /\ b + 1 \in 1..Len(t) + 1
<1>1. Breaks(t) \subseteq 0..Len(t) /\ Len(t) \in Nat /\ b \in Breaks(t) /\ b \in 0..Len(t)
    BY BreaksAreNumbers DEF LastBreak
<1>2. EndsAt(t, b, Len(t) + 1)
    BY <1>1 DEF LastBreak, EndsAt
<1>3. Line(t, b) = SubSeq(t, b + 1, (Len(t) + 1) - 1) /\ Line(t, b) \in Seq(Tokens)
    BY <1>1, <1>2, LineTo
<1>4. (Len(t) + 1) - 1 = Len(t) /\ b + 1 \in 1..Len(t) + 1
    BY <1>1
<1> QED
    BY <1>1, <1>3, <1>4

\* It grows with every token but a break.
LEMMA LineGrows ==
    ASSUME NEW t \in Seq(Tokens), NEW c \in NoBreak, NEW b, LastBreak(t, b)
    PROVE  /\ LastBreak(Append(t, c), b)
           /\ Line(Append(t, c), b) = Append(Line(t, b), c)
<1>1. c \in Tokens /\ c # "nl"
    BY DEF NoBreak
<1>2. PICK t2 \in Seq(Tokens) : t2 = Append(t, c) /\ Len(t2) = Len(t) + 1
    <2>1. Append(t, c) \in Seq(Tokens) /\ Len(Append(t, c)) = Len(t) + 1
        BY <1>1, AppendProperties
    <2> QED
        BY <2>1
<1>3. Breaks(t2) = Breaks(t)
    BY <1>1, <1>2, BreaksOfAppend
<1>4. LastBreak(t2, b)
    BY <1>3 DEF LastBreak
<1>5. Line(t, b) = SubSeq(t, b + 1, Len(t)) /\ b + 1 \in 1..Len(t) + 1
    BY LastLine
<1>6. Line(t2, b) = SubSeq(t2, b + 1, Len(t2))
    BY <1>4, LastLine
<1>7. SubSeq(Append(t, c), b + 1, Len(t) + 1) = Append(SubSeq(t, b + 1, Len(t)), c)
    BY <1>1, <1>5, SliceToEnd
<1> QED
    BY <1>2, <1>4, <1>5, <1>6, <1>7

\* Behind a break it is empty.
LEMMA LineStarts ==
    ASSUME NEW t \in Seq(Tokens)
    PROVE  /\ LastBreak(Append(t, "nl"), Len(t) + 1)
           /\ Line(Append(t, "nl"), Len(t) + 1) = << >>
<1>1. "nl" \in Tokens
    BY DEF Tokens
<1>2. PICK t2 \in Seq(Tokens) : t2 = Append(t, "nl") /\ Len(t2) = Len(t) + 1
    <2>1. Append(t, "nl") \in Seq(Tokens) /\ Len(Append(t, "nl")) = Len(t) + 1
        BY <1>1, AppendProperties
    <2> QED
        BY <2>1
<1>3. Breaks(t2) = Breaks(t) \union {Len(t) + 1}
    BY <1>1, <1>2, BreaksOfAppend
<1>4. LastBreak(t2, Len(t) + 1)
    BY <1>3, BreaksAreNumbers DEF LastBreak
<1>5. Line(t2, Len(t) + 1) = SubSeq(t2, Len(t) + 2, Len(t) + 1)
    <2>1. (Len(t) + 1) + 1 = Len(t) + 2
        OBVIOUS
    <2> QED
        BY <1>2, <1>4, <2>1, LastLine
<1>6. SubSeq(t2, Len(t) + 2, Len(t) + 1) = << >>
    <2>1. Len(t) + 2 \in Int /\ Len(t) + 1 \in Int /\ Len(t) + 1 < Len(t) + 2
        OBVIOUS
    <2> QED
        BY <2>1, SubSeqEmpty
<1> QED
    BY <1>2, <1>4, <1>5, <1>6

-----------------------------------------------------------------------------
(* The last verdict line.                                                  *)

Marked(text) == {b \in Breaks(text) : IsVerdictLine(Line(text, b))}

LEMMA EmptyLine == ~IsVerdictLine(<< >>)
<1>1. << >> \in Seq(Tokens) /\ Len(<< >>) = 0 /\ Blanks(<< >>, 1, 0)
    BY DEF Blanks
<1>2. Trim(<< >>) = << >>
    BY <1>1, TrimBlank
<1> QED
    BY <1>2 DEF IsVerdictLine

\* The verdict line that none follows is the one Max takes.
LEMMA ParseOf ==
    ASSUME NEW t \in Seq(Tokens), NEW b \in Marked(t), \A x \in Marked(t) : b >= x
    PROVE  ParseGoalStep(t) = VerdictOf(Line(t, b))
<1>1. Marked(t) \in SUBSET Int /\ Marked(t) # {}
    BY BreaksAreNumbers DEF Marked
<1>2. Max(Marked(t)) = b
    BY <1>1, MaxIs
<1> QED
    BY <1>1, <1>2 DEF ParseGoalStep, Marked

\* Texts with the same verdict lines say the same.
LEMMA ParseSame ==
    ASSUME NEW t \in Seq(Tokens), NEW t2 \in Seq(Tokens), Marked(t2) = Marked(t),
           \A x \in Marked(t) : Line(t2, x) = Line(t, x)
    PROVE  ParseGoalStep(t2) = ParseGoalStep(t)
<1>1. CASE Marked(t) = {}
    BY <1>1 DEF ParseGoalStep, Marked
<1>2. CASE Marked(t) # {}
    <2>1. Marked(t) \in SUBSET (0..Len(t)) /\ Len(t) \in Nat
        BY BreaksAreNumbers DEF Marked
    <2>2. PICK b \in Marked(t) : \A x \in Marked(t) : b >= x
        BY <1>2, <2>1, GreatestNumber
    <2>3. ParseGoalStep(t) = VerdictOf(Line(t, b))
        BY <2>2, ParseOf
    <2>4. ParseGoalStep(t2) = VerdictOf(Line(t2, b))
        BY <2>2, ParseOf
    <2> QED
        BY <2>2, <2>3, <2>4
<1> QED
    BY <1>1, <1>2

\* A break changes no verdict.
LEMMA ParseNewLine ==
    ASSUME NEW t \in Seq(Tokens)
    PROVE  ParseGoalStep(Append(t, "nl")) = ParseGoalStep(t)
<1>1. "nl" \in Tokens
    BY DEF Tokens
<1>2. PICK t2 \in Seq(Tokens) : t2 = Append(t, "nl")
    BY <1>1, AppendProperties
<1>3. Breaks(t2) = Breaks(t) \union {Len(t) + 1}
    BY <1>1, <1>2, BreaksOfAppend
<1>4. \A x \in Breaks(t) : Line(t2, x) = Line(t, x)
    BY <1>1, <1>2, LineSame
<1>5. ~IsVerdictLine(Line(t2, Len(t) + 1))
    BY <1>2, LineStarts, EmptyLine
<1>6. Marked(t2) = Marked(t)
    BY <1>3, <1>4, <1>5 DEF Marked
<1> QED
    BY <1>2, <1>4, <1>6, ParseSame DEF Marked

\* Nor does a token of a last line that is no verdict line.
LEMMA ParseUnmarked ==
    ASSUME NEW t \in Seq(Tokens), NEW c \in NoBreak, NEW b, LastBreak(t, b),
           ~IsVerdictLine(Line(t, b)), ~IsVerdictLine(Append(Line(t, b), c))
    PROVE  ParseGoalStep(Append(t, c)) = ParseGoalStep(t)
<1>1. c \in Tokens /\ c # "nl"
    BY DEF NoBreak
<1>2. PICK t2 \in Seq(Tokens) : t2 = Append(t, c)
    BY <1>1, AppendProperties
<1>3. Breaks(t2) = Breaks(t) /\ Line(t2, b) = Append(Line(t, b), c)
    BY <1>1, <1>2, BreaksOfAppend, LineGrows
<1>4. ASSUME NEW x \in Breaks(t), x # b PROVE Line(t2, x) = Line(t, x)
    <2>1. b \in Breaks(t) /\ b > x
        BY <1>4, BreaksAreNumbers DEF LastBreak
    <2> QED
        BY <1>1, <1>2, <2>1, LineSame
<1>5. b \notin Marked(t) /\ b \notin Marked(t2)
    BY <1>3 DEF Marked
<1>6. Marked(t2) = Marked(t) /\ \A x \in Marked(t) : Line(t2, x) = Line(t, x)
    BY <1>3, <1>4, <1>5 DEF Marked
<1> QED
    BY <1>2, <1>6, ParseSame

\* A last line that is one decides.
LEMMA ParseLast ==
    ASSUME NEW t \in Seq(Tokens), NEW b, LastBreak(t, b), IsVerdictLine(Line(t, b))
    PROVE  ParseGoalStep(t) = VerdictOf(Line(t, b))
<1>1. b \in Marked(t) /\ \A x \in Marked(t) : b >= x
    BY BreaksAreNumbers DEF Marked, LastBreak
<1> QED
    BY <1>1, ParseOf

-----------------------------------------------------------------------------
(* The invariant.                                                          *)

\* The inductive part of LastLineDecides: the scan is about the last line.
LastLineShape(text, r) ==
    \E b \in 0..Len(text) : LastBreak(text, b) /\ LineShape(Line(text, b), r)

LEMMA NothingRead ==
    /\ << >> \in Seq(Tokens) /\ ScanOK(Fresh) /\ LastLineShape(<< >>, Fresh)
    /\ ParseGoalStep(<< >>) = Judge(Fresh.status, Fresh.text)
<1>1. << >> \in Seq(Tokens) /\ Len(<< >>) = 0 /\ 1..0 = {}
    OBVIOUS
<1>2. << >> \in Seq(NoBreak) /\ << >> \in Seq({"blank"})
    OBVIOUS
<1>3. ScanOK(Fresh)
    BY <1>1, <1>2 DEF ScanOK, Fresh
<1>4. LastBreak(<< >>, 0)
    BY <1>1 DEF LastBreak, Breaks
<1>5. Line(<< >>, 0) = << >>
    <2>1. Line(<< >>, 0) = SubSeq(<< >>, 0 + 1, Len(<< >>))
        BY <1>1, <1>4, LastLine
    <2>2. SubSeq(<< >>, 1, 0) = << >>
        BY SubSeqEmpty
    <2> QED
        BY <1>1, <2>1, <2>2
<1>6. LineShape(<< >>, Fresh)
    BY <1>1 DEF LineShape, NotMarked, Blanks, Fresh
<1>7. Marked(<< >>) = {}
    BY <1>1, <1>5, EmptyLine DEF Marked, Breaks
<1>8. ParseGoalStep(<< >>) = Verdict("continue", NoText)
    BY <1>7 DEF ParseGoalStep, Marked
<1>9. Judge(<< >>, << >>) = Verdict("continue", NoText)
    BY DEF Judge
<1> QED
    BY <1>1, <1>3, <1>4, <1>5, <1>6, <1>8, <1>9 DEF LastLineShape, Fresh

\* One more token: both readings of the reply move together.
LEMMA ReadsAlike ==
    ASSUME NEW t \in Seq(Tokens), NEW r, NEW c \in Tokens,
           ScanOK(r), LastLineShape(t, r), ParseGoalStep(t) = Judge(r.status, r.text)
    PROVE  /\ LastLineShape(Append(t, c), Scan(r, c))
           /\ ParseGoalStep(Append(t, c)) = Judge(Scan(r, c).status, Scan(r, c).text)
<1>1. PICK t2 \in Seq(Tokens) : t2 = Append(t, c) /\ Len(t2) = Len(t) + 1
    <2>1. Append(t, c) \in Seq(Tokens) /\ Len(Append(t, c)) = Len(t) + 1
        BY AppendProperties
    <2> QED
        BY <2>1
<1>2. r \in [mode : {"start", "ignore", "rest", "status", "text"}, status : Seq(Tokens),
             text : Seq(NoBreak), gap : Seq({"blank"})]
    BY DEF ScanOK
<1>3. CASE c = "nl"
    <2>1. Scan(r, c) = [r EXCEPT !.mode = "start", !.gap = << >>]
        BY <1>3 DEF Scan
    <2>2. /\ Scan(r, c).mode = "start"
          /\ Scan(r, c).status = r.status /\ Scan(r, c).text = r.text
        BY <1>2, <2>1
    <2>3. ParseGoalStep(t2) = ParseGoalStep(t)
        BY <1>1, <1>3, ParseNewLine
    <2>4. LastBreak(t2, Len(t) + 1) /\ Line(t2, Len(t) + 1) = << >>
        BY <1>1, <1>3, LineStarts
    <2>5. LineShape(<< >>, Scan(r, c))
        <3>1. Blanks(<< >>, 1, Len(<< >>))
            BY DEF Blanks
        <3> QED
            BY <2>2, <3>1 DEF LineShape, NotMarked
    <2>6. Len(t) + 1 \in 0..Len(t2)
        BY <1>1
    <2> QED
        BY <1>1, <2>2, <2>3, <2>4, <2>5, <2>6 DEF LastLineShape
<1>4. CASE c # "nl"
    <2>1. c \in NoBreak
        BY <1>4 DEF NoBreak
    <2>2. PICK b \in 0..Len(t) : LastBreak(t, b) /\ LineShape(Line(t, b), r)
        BY DEF LastLineShape
    <2>3. PICK s \in Seq(Tokens) : s = Line(t, b)
        BY <2>2, LastLine
    <2>4. LastBreak(t2, b) /\ Line(t2, b) = Append(s, c)
        BY <1>1, <2>1, <2>2, <2>3, LineGrows
    <2>5. LineShape(Append(s, c), Scan(r, c))
        BY <2>1, <2>2, <2>3, ShapeNext
    <2>6. PICK s2 \in Seq(Tokens) : s2 = Append(s, c)
        BY AppendProperties
    <2>7. LastLineShape(t2, Scan(r, c))
        <3>1. b \in 0..Len(t2)
            BY <1>1
        <3> QED
            BY <2>4, <2>5, <3>1 DEF LastLineShape
    <2>8. CASE Scan(r, c).mode \in {"start", "ignore"}
        <3>1. /\ r.mode \in {"start", "ignore"}
              /\ Scan(r, c).status = r.status /\ Scan(r, c).text = r.text
            <4>1. ~(r.mode = "start" /\ c = "GOAL_STEP:")
                <5> SUFFICES ASSUME r.mode = "start", c = "GOAL_STEP:" PROVE FALSE
                    OBVIOUS
                <5>1. Scan(r, c) = [Fresh EXCEPT !.mode = "rest"]
                    BY <2>1, ScanCases
                <5>2. Scan(r, c).mode = "rest"
                    BY <5>1 DEF Fresh
                <5> QED
                    BY <2>8, <5>2
            <4>2. r.mode \notin {"rest", "status", "text"}
                <5> SUFFICES ASSUME r.mode \in {"rest", "status", "text"}
                             PROVE  Scan(r, c).mode \in {"rest", "status", "text"}
                    BY <2>8
                <5>1. CASE r.mode = "rest" /\ c = "blank"
                    <6>1. Scan(r, c) = r
                        BY <2>1, <5>1, ScanCases
                    <6> QED
                        BY <6>1
                <5>2. CASE r.mode \in {"rest", "status"} /\ c # "blank"
                    <6>1. Scan(r, c) = [r EXCEPT !.mode = "status", !.status = Append(r.status, c)]
                        BY <2>1, <5>2, ScanCases
                    <6> QED
                        BY <1>2, <6>1
                <5>3. CASE r.mode = "status" /\ c = "blank"
                    <6>1. Scan(r, c) = [r EXCEPT !.mode = "text"]
                        BY <2>1, <5>3, ScanCases
                    <6> QED
                        BY <1>2, <6>1
                <5>4. CASE r.mode = "text" /\ c = "blank"
                    <6>1. Scan(r, c) = IF r.text = << >> THEN r ELSE [r EXCEPT !.gap = Append(r.gap, c)]
                        BY <2>1, <5>4, ScanCases
                    <6> QED
                        BY <1>2, <5>4, <6>1
                <5>5. CASE r.mode = "text" /\ c # "blank"
                    <6>1. Scan(r, c) = [r EXCEPT !.text = Append(r.text \o r.gap, c), !.gap = << >>]
                        BY <2>1, <5>5, ScanCases
                    <6> QED
                        BY <1>2, <5>5, <6>1
                <5> QED
                    BY <5>1, <5>2, <5>3, <5>4, <5>5
            <4>3. Scan(r, c) = r \/ Scan(r, c) = [r EXCEPT !.mode = "ignore"]
                BY <1>2, <2>1, <4>1, <4>2, ScanCases
            <4> QED
                BY <1>2, <4>2, <4>3
        <3>2. ~IsVerdictLine(s)
            BY <2>2, <2>3, <3>1, ShapeSays
        <3>3. ~IsVerdictLine(s2)
            BY <2>5, <2>6, <2>8, ShapeSays
        <3>4. ParseGoalStep(t2) = ParseGoalStep(t)
            BY <1>1, <2>1, <2>2, <2>3, <2>6, <3>2, <3>3, ParseUnmarked
        <3> QED
            BY <1>1, <2>7, <3>1, <3>4
    <2>9. CASE Scan(r, c).mode \notin {"start", "ignore"}
        <3>1. IsVerdictLine(s2) /\ VerdictOf(s2) = Judge(Scan(r, c).status, Scan(r, c).text)
            BY <2>5, <2>6, <2>9, ShapeSays
        <3>2. ParseGoalStep(t2) = VerdictOf(s2)
            BY <2>4, <2>6, <3>1, ParseLast
        <3> QED
            BY <1>1, <2>7, <3>1, <3>2
    <2> QED
        BY <2>8, <2>9
<1> QED
    BY <1>3, <1>4

\* The text that Judge turns into a steer is clean, or there is none.
LEMMA CleanSteer ==
    ASSUME NEW r, ScanOK(r), Judge(r.status, r.text).kind = "continue",
           Judge(r.status, r.text).text # NoText
    PROVE  /\ Judge(r.status, r.text).text = r.text
           /\ r.text \in Seq(Tokens) /\ r.text # << >>
           /\ Head(r.text) # "blank" /\ Last(r.text) # "blank"
           /\ \A i \in 1..Len(r.text) : r.text[i] # "nl"
<1>1. r.text \in Seq(NoBreak)
    BY DEF ScanOK
<1>2. Judge(r.status, r.text).text = r.text /\ r.text # << >>
    <2>1. CASE r.status = << "done" >>
        BY <2>1 DEF Judge, Verdict
    <2>2. CASE r.status = << "blocked" >> /\ r.status # << "done" >>
        BY <2>2 DEF Judge, Verdict
    <2>3. CASE r.status = << "continue" >> /\ r.status \notin {<< "done" >>, << "blocked" >>}
        BY <2>3 DEF Judge, Verdict
    <2>4. CASE r.status \notin {<< "done" >>, << "blocked" >>, << "continue" >>}
        BY <2>4 DEF Judge, Verdict
    <2> QED
        BY <2>1, <2>2, <2>3, <2>4
<1>3. PICK s \in Seq(NoBreak) : s = r.text
    BY <1>1
<1>4. s # << >> /\ s[1] # "blank" /\ s[Len(s)] # "blank"
    BY <1>2, <1>3 DEF ScanOK
<1>5. Head(s) = s[1] /\ Last(s) = s[Len(s)]
    BY <1>4 DEF Last
<1>6. \A i \in 1..Len(s) : s[i] \in Tokens /\ s[i] # "nl"
    BY DEF NoBreak
<1>7. s \in Seq(Tokens)
    BY <1>6 DEF NoBreak
<1> QED
    BY <1>2, <1>3, <1>4, <1>5, <1>6, <1>7

LEMMA VerdictInvInit == VerdictInit => VerdictInv
<1> SUFFICES ASSUME VerdictInit PROVE VerdictInv
    OBVIOUS
<1> USE DEF VerdictInit
<1>1. reply \in Seq(Tokens) /\ ScanOK(scan) /\ LastLineShape(reply, scan) /\ LastLineDecides
    BY NothingRead DEF LastLineDecides
<1> QED
    BY <1>1 DEF VerdictInv, LastLineShape, SteerIsOneLine

LEMMA VerdictInvNext == VerdictInv /\ [VerdictNext]_replyVars => VerdictInv'
<1> SUFFICES ASSUME VerdictInv, [VerdictNext]_replyVars PROVE VerdictInv'
    OBVIOUS
<1>1. /\ reply \in Seq(Tokens) /\ ScanOK(scan) /\ LastLineShape(reply, scan)
      /\ steer \in Seq(Tokens) \union {NoText}
      /\ ParseGoalStep(reply) = Judge(scan.status, scan.text)
      /\ SteerIsOneLine
    BY DEF VerdictInv, LastLineShape, LastLineDecides
<1>2. ASSUME NEW c \in Tokens, Delta(c) PROVE VerdictInv'
    <2>1. reply' = Append(reply, c) /\ scan' = Scan(scan, c) /\ steer' = steer
        BY <1>2 DEF Delta
    <2>2. reply' \in Seq(Tokens) /\ ScanOK(scan')
        BY <1>1, <2>1, AppendProperties, ScanOKNext
    <2>3. LastLineShape(reply', scan') /\ ParseGoalStep(reply') = Judge(scan'.status, scan'.text)
        BY <1>1, <2>1, ReadsAlike
    <2>4. SteerIsOneLine'
        BY <1>1, <2>1 DEF SteerIsOneLine
    <2> QED
        BY <1>1, <2>1, <2>2, <2>3, <2>4 DEF VerdictInv, LastLineShape, LastLineDecides
<1>3. CASE Complete
    <2>1. /\ reply' = << >> /\ scan' = Fresh
          /\ steer' = IF ParseGoalStep(reply).kind = "continue" THEN ParseGoalStep(reply).text
                      ELSE NoText
        BY <1>3 DEF Complete
    <2>2. /\ reply' \in Seq(Tokens) /\ ScanOK(scan') /\ LastLineShape(reply', scan')
          /\ ParseGoalStep(reply') = Judge(scan'.status, scan'.text)
        BY <2>1, NothingRead
    <2>3. steer' \in Seq(Tokens) \union {NoText} /\ SteerIsOneLine'
        <3>1. CASE steer' = NoText
            BY <3>1 DEF SteerIsOneLine
        <3>2. CASE steer' # NoText
            <4>1. /\ Judge(scan.status, scan.text).kind = "continue"
                  /\ Judge(scan.status, scan.text).text # NoText
                  /\ steer' = Judge(scan.status, scan.text).text
                BY <1>1, <2>1, <3>2
            <4>2. /\ steer' = scan.text /\ scan.text \in Seq(Tokens) /\ scan.text # << >>
                  /\ Head(scan.text) # "blank" /\ Last(scan.text) # "blank"
                  /\ \A i \in 1..Len(scan.text) : scan.text[i] # "nl"
                BY <1>1, <4>1, CleanSteer
            <4> QED
                BY <4>2 DEF SteerIsOneLine
        <3> QED
            BY <3>1, <3>2
    <2> QED
        BY <2>2, <2>3 DEF VerdictInv, LastLineShape, LastLineDecides
<1>4. CASE UNCHANGED replyVars
    BY <1>1, <1>4 DEF VerdictInv, LastLineShape, LastLineDecides, SteerIsOneLine, replyVars
<1> QED
    BY <1>2, <1>3, <1>4 DEF VerdictNext

\* The scan describes the line in progress, and parse_goal_step agrees with it,
\* at every point of every reply (goal.rs:286-318).
THEOREM VerdictInvariant == VerdictSpec => []VerdictInv
BY VerdictInvInit, VerdictInvNext, PTL DEF VerdictSpec

\* parse_goal_step looks for the last verdict line from the end of the reply;
\* that is the verdict of a forward reading in which each verdict line
\* overrides the one before, in status, steer and reason, wherever the reply
\* is cut (goal.rs:291-317).
THEOREM LastLineDecidesHolds == VerdictSpec => []LastLineDecides
<1>1. VerdictInv => LastLineDecides
    BY DEF VerdictInv
<1> QED
    BY <1>1, VerdictInvariant, PTL

\* A steer fits the one line step_directive gives it: it is not empty, has no
\* line break and no blanks around it (goal.rs:277-280, 303-308).
THEOREM SteerIsOneLineHolds == VerdictSpec => []SteerIsOneLine
<1>1. VerdictInv => SteerIsOneLine
    BY DEF VerdictInv
<1> QED
    BY <1>1, VerdictInvariant, PTL

-----------------------------------------------------------------------------
(* A prompt read as a reply.                                               *)

\* A slice of one token.
LEMMA OneToken ==
    ASSUME NEW s \in Seq(Tokens), NEW a \in 1..Len(s)
    PROVE  SubSeq(s, a, a) = << s[a] >>
<1>1. /\ a \in 1..Len(s) + 1 /\ a \in a - 1..Len(s) /\ s[a] \in Tokens
      /\ a - a + 1 = 1 /\ a + 1 - 1 = a
    OBVIOUS
<1>2. /\ SubSeq(s, a, a) \in Seq(Tokens) /\ Len(SubSeq(s, a, a)) = a - a + 1
      /\ \A i \in 1..a - a + 1 : SubSeq(s, a, a)[i] = s[a + i - 1]
    BY <1>1, Slice
<1>3. PICK u \in Seq(Tokens) : u = SubSeq(s, a, a) /\ Len(u) = 1 /\ u[1] = s[a]
    <2>1. PICK u \in Seq(Tokens) : /\ u = SubSeq(s, a, a) /\ Len(u) = a - a + 1
                                   /\ \A i \in 1..a - a + 1 : u[i] = s[a + i - 1]
        BY <1>2
    <2>2. Len(u) = 1 /\ u[1] = s[a]
        BY <1>1, <2>1
    <2> QED
        BY <2>1, <2>2
<1>4. PICK x \in Tokens : x = s[a]
    BY <1>1
<1>5. PICK v \in Seq(Tokens) : v = << x >> /\ Len(v) = 1 /\ v[1] = x
    <2>1. << x >> \in Seq(Tokens) /\ Len(<< x >>) = 1 /\ << x >>[1] = x
        OBVIOUS
    <2> QED
        BY <2>1
<1>6. \A i \in 1..Len(u) : u[i] = v[i]
    BY <1>3, <1>4, <1>5
<1>7. u = v
    BY <1>3, <1>5, <1>6, SeqEqual
<1> QED
    BY <1>3, <1>4, <1>5, <1>7

\* The convention line is a Continue, with the other two words in its steer.
LEMMA ConventionSays ==
    /\ Convention \in Seq(Tokens)
    /\ IsVerdictLine(Convention) /\ VerdictOf(Convention).kind = "continue"
<1>1. PICK s \in Seq(Tokens) : /\ s = Convention /\ Len(s) = 13
                               /\ s[1] = "GOAL_STEP:" /\ s[2] = "blank" /\ s[3] = "continue"
                               /\ s[4] = "blank" /\ s[5] = "x" /\ s[13] = "x"
    <2>1. /\ Convention \in Seq(Tokens) /\ Len(Convention) = 13
          /\ Convention[1] = "GOAL_STEP:" /\ Convention[2] = "blank" /\ Convention[3] = "continue"
          /\ Convention[4] = "blank" /\ Convention[5] = "x" /\ Convention[13] = "x"
        BY DEF Convention, Tokens
    <2> QED
        BY <2>1
<1>2. MarkedAt(s, 1)
    BY <1>1 DEF MarkedAt, Blanks
<1>3. WordAt(s, 1, 3, 3)
    BY <1>1 DEF WordAt, Blanks
<1>4. TextAt(s, 3, 5, 13)
    BY <1>1 DEF TextAt, Blanks
<1>5. IsVerdictLine(s) /\ VerdictOf(s) = Judge(SubSeq(s, 3, 3), SubSeq(s, 5, 13))
    <2>1. 1 \in 1..Len(s) /\ 3 \in 1 + 1..Len(s) /\ 3 \in 3..Len(s) /\ 5 \in 3 + 2..Len(s) /\ 13 \in 5..Len(s)
        BY <1>1
    <2> QED
        BY <1>2, <1>3, <1>4, <2>1, TextSays
<1>6. SubSeq(s, 3, 3) = << "continue" >>
    <2>1. 3 \in 1..Len(s)
        BY <1>1
    <2>2. SubSeq(s, 3, 3) = << s[3] >>
        BY <2>1, OneToken
    <2> QED
        BY <1>1, <2>2
<1>7. Judge(<< "continue" >>, SubSeq(s, 5, 13)).kind = "continue"
    BY DEF Judge, Verdict
<1> QED
    BY <1>1, <1>5, <1>6, <1>7

\* The last line of a text that ends in a break and a line without one.
LEMMA LastLineIs ==
    ASSUME NEW a \in Seq(Tokens), NEW s \in Seq(NoBreak)
    PROVE  LET t == a \o << "nl" >> \o s
           IN  /\ t \in Seq(Tokens)
               /\ LastBreak(t, Len(a) + 1) /\ Line(t, Len(a) + 1) = s
<1>1. "nl" \in Tokens /\ \A i \in 1..Len(s) : s[i] \in Tokens /\ s[i] # "nl"
    BY DEF NoBreak, Tokens
<1>2. PICK h \in Seq(Tokens) : /\ h = a \o << "nl" >> /\ Len(h) = Len(a) + 1
                               /\ h[Len(a) + 1] = "nl"
    <2>1. Append(a, "nl") = a \o << "nl" >>
        BY AppendIsConcat
    <2>2. /\ Append(a, "nl") \in Seq(Tokens) /\ Len(Append(a, "nl")) = Len(a) + 1
          /\ Append(a, "nl")[Len(a) + 1] = "nl"
        BY <1>1, AppendProperties
    <2> QED
        BY <2>1, <2>2
<1>3. s \in Seq(Tokens)
    BY <1>1
<1>4. PICK t \in Seq(Tokens) : /\ t = h \o s /\ Len(t) = Len(h) + Len(s)
                               /\ \A i \in 1..Len(h) + Len(s) :
                                     t[i] = IF i <= Len(h) THEN h[i] ELSE s[i - Len(h)]
    <2>1. /\ h \o s \in Seq(Tokens) /\ Len(h \o s) = Len(h) + Len(s)
          /\ \A i \in 1..Len(h) + Len(s) :
                (h \o s)[i] = IF i <= Len(h) THEN h[i] ELSE s[i - Len(h)]
        BY <1>3, ConcatProperties
    <2> QED
        BY <2>1
<1>5. t[Len(h)] = "nl" /\ Len(h) \in 1..Len(t)
    BY <1>2, <1>4
<1>6. ASSUME NEW x \in Breaks(t) PROVE x <= Len(h)
    <2>1. x \in 0..Len(t)
        BY BreaksAreNumbers
    <2>2. CASE x > Len(h)
        <3>1. x \in 1..Len(t) /\ t[x] = "nl" /\ x - Len(h) \in 1..Len(s)
            BY <1>4, <1>6, <2>1, <2>2 DEF Breaks
        <3>2. t[x] = s[x - Len(h)]
            BY <1>4, <2>2, <3>1
        <3> QED
            BY <1>1, <3>1, <3>2
    <2> QED
        BY <2>1, <2>2
<1>7. LastBreak(t, Len(h))
    BY <1>5, <1>6 DEF LastBreak, Breaks
<1>8. Line(t, Len(h)) = SubSeq(t, Len(h) + 1, Len(t))
    BY <1>7, LastLine
<1>9. PICK u \in Seq(Tokens) : /\ u = SubSeq(t, Len(h) + 1, Len(t))
                               /\ Len(u) = Len(s)
                               /\ \A i \in 1..Len(s) : u[i] = t[Len(h) + i]
    <2>1. Len(h) + 1 \in 1..Len(t) + 1 /\ Len(t) \in (Len(h) + 1) - 1..Len(t)
        BY <1>4
    <2>2. PICK l \in Nat : l = Len(h) + 1
        OBVIOUS
    <2>3. /\ SubSeq(t, l, Len(t)) \in Seq(Tokens)
          /\ Len(SubSeq(t, l, Len(t))) = Len(t) - l + 1
          /\ \A i \in 1..Len(t) - l + 1 : SubSeq(t, l, Len(t))[i] = t[l + i - 1]
        BY <2>1, <2>2, Slice
    <2>4. Len(t) - l + 1 = Len(s) /\ \A i \in 1..Len(s) : l + i - 1 = Len(h) + i
        BY <1>4, <2>2
    <2>5. PICK u \in Seq(Tokens) : /\ u = SubSeq(t, l, Len(t)) /\ Len(u) = Len(t) - l + 1
                                   /\ \A i \in 1..Len(t) - l + 1 : u[i] = t[l + i - 1]
        BY <2>3
    <2>6. Len(u) = Len(s) /\ \A i \in 1..Len(s) : u[i] = t[Len(h) + i]
        BY <2>4, <2>5
    <2> QED
        BY <2>2, <2>5, <2>6
<1>10. \A i \in 1..Len(s) : /\ Len(h) + i \in 1..Len(h) + Len(s) /\ ~(Len(h) + i <= Len(h))
                            /\ (Len(h) + i) - Len(h) = i
    OBVIOUS
<1>11. \A i \in 1..Len(s) : u[i] = s[i]
    BY <1>4, <1>9, <1>10
<1>12. u = s
    BY <1>3, <1>9, <1>11, SeqEqual
<1> QED
    BY <1>2, <1>4, <1>7, <1>8, <1>9, <1>12

LEMMA DirectiveContinues ==
    ASSUME NEW s \in Seq(Tokens) \union {NoText}
    PROVE  ParseGoalStep(Directive(s)).kind = "continue"
<1> DEFINE intro == << "x", "nl", "x" >>
           steered == IF s = NoText THEN << >> ELSE << "nl", "x", "blank" >> \o s
<1>1. intro \in Seq(Tokens) /\ steered \in Seq(Tokens)
    <2>1. << "nl", "x", "blank" >> \in Seq(Tokens) /\ << >> \in Seq(Tokens) /\ intro \in Seq(Tokens)
        BY DEF Tokens
    <2>2. CASE s = NoText
        BY <2>1, <2>2
    <2>3. CASE s # NoText
        BY <2>1, <2>3, ConcatProperties
    <2> QED
        BY <2>1, <2>2, <2>3
<1>2. PICK head \in Seq(Tokens) : head = intro \o steered
    <2> HIDE DEF intro, steered
    <2> QED
        BY <1>1, ConcatProperties
<1>3. << "nl", "x" >> \in Seq(Tokens) /\ << "nl" >> \in Seq(Tokens)
    BY DEF Tokens
<1>4. PICK a \in Seq(Tokens) : a = head \o << "nl", "x" >>
    BY <1>3, ConcatProperties
<1>5. head \o << "nl", "x", "nl" >> = a \o << "nl" >>
    <2>1. << "nl", "x" >> \o << "nl" >> = << "nl", "x", "nl" >>
        <3>1. Append(<< "nl", "x" >>, "nl") = << "nl", "x" >> \o << "nl" >>
            BY <1>3, AppendIsConcat
        <3>2. PICK p \in Seq(Tokens) : /\ p = << "nl", "x" >>
                                       /\ Len(p) = 2 /\ p[1] = "nl" /\ p[2] = "x"
            <4>1. /\ Len(<< "nl", "x" >>) = 2
                  /\ << "nl", "x" >>[1] = "nl" /\ << "nl", "x" >>[2] = "x"
                OBVIOUS
            <4> QED
                BY <1>3, <4>1
        <3>3. PICK q \in Seq(Tokens) : /\ q = << "nl", "x", "nl" >> /\ Len(q) = 3
                                       /\ q[1] = "nl" /\ q[2] = "x" /\ q[3] = "nl"
            <4>1. /\ << "nl", "x", "nl" >> \in Seq(Tokens) /\ Len(<< "nl", "x", "nl" >>) = 3
                  /\ << "nl", "x", "nl" >>[1] = "nl" /\ << "nl", "x", "nl" >>[2] = "x"
                  /\ << "nl", "x", "nl" >>[3] = "nl"
                BY DEF Tokens
            <4> QED
                BY <4>1
        <3>4. "nl" \in Tokens
            BY DEF Tokens
        <3>5. PICK u \in Seq(Tokens) : /\ u = Append(p, "nl") /\ Len(u) = 3
                                       /\ \A i \in 1..2 : u[i] = p[i]
                                       /\ u[3] = "nl"
            <4>1. /\ Append(p, "nl") \in Seq(Tokens) /\ Len(Append(p, "nl")) = Len(p) + 1
                  /\ \A i \in 1..Len(p) : Append(p, "nl")[i] = p[i]
                  /\ Append(p, "nl")[Len(p) + 1] = "nl"
                BY <3>4, AppendProperties
            <4>2. Len(p) = 2 /\ Len(p) + 1 = 3
                BY <3>2
            <4> QED
                BY <4>1, <4>2
        <3>6. \A i \in 1..3 : u[i] = q[i]
            BY <3>2, <3>3, <3>5
        <3>7. u = q
            BY <3>3, <3>5, <3>6, SeqEqual
        <3> QED
            BY <3>1, <3>2, <3>3, <3>5, <3>7, Zenon
    <2>2. (head \o << "nl", "x" >>) \o << "nl" >> = head \o (<< "nl", "x" >> \o << "nl" >>)
        BY <1>3, ConcatAssociative
    <2> QED
        BY <1>4, <2>1, <2>2, Zenon
<1>6. Directive(s) = a \o << "nl" >> \o Convention
    <2>1. Directive(s) = head \o << "nl", "x", "nl" >> \o Convention
        BY <1>2, Zenon DEF Directive
    <2> QED
        BY <1>5, <2>1, Zenon
<1>7. Convention \in Seq(NoBreak)
    BY DEF Convention, NoBreak, Tokens
<1>8. PICK t \in Seq(Tokens) : /\ t = a \o << "nl" >> \o Convention
                               /\ LastBreak(t, Len(a) + 1) /\ Line(t, Len(a) + 1) = Convention
    BY <1>7, LastLineIs
<1>9. ParseGoalStep(t) = VerdictOf(Convention)
    BY <1>8, ConventionSays, ParseLast
<1> QED
    BY <1>6, <1>8, <1>9, ConventionSays

\* A reply that repeats the prompt, with whatever steer it carries, reads as a
\* Continue: its last line is the convention line (goal.rs:281-284, 292-314).
THEOREM EchoNeverConcludesHolds == VerdictSpec => []EchoNeverConcludes
<1>1. VerdictInv => EchoNeverConcludes
    BY DirectiveContinues DEF VerdictInv, EchoNeverConcludes
<1> QED
    BY <1>1, VerdictInvariant, PTL

=============================================================================
