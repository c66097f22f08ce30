-------------------------- MODULE SystemStateFold ----------------------------
(***************************************************************************)
(* SystemState of agent-core/src/state.rs: the colony's canonical state as *)
(* a fold of its events (apply), the registration of child sessions        *)
(* (register_child) and the cancel cascade (subtree).                      *)
(*                                                                         *)
(* apply is pure and total, so the specification is its environment: any   *)
(* order of events and calls.  Two history variables tell the orders in    *)
(* which the maps agree with one another from the rest: no plugin is       *)
(* announced twice without going down and no tool name is advertised by    *)
(* two; registrations are of fresh children of live parents.               *)
(*                                                                         *)
(* A history is its length, a tool is its name.  The events that apply     *)
(* matches without touching the state are stuttering steps.                *)
(***************************************************************************)
EXTENDS Naturals, Sequences, FiniteSets

CONSTANTS
    Sessions, Plugins, Tools, Actions,
    None,           \* Option::None, and a map's missing key
    MaxStrays,      \* bound: registrations out of order
    MaxHistory,     \* bound: messages per session
    MaxSpawned      \* bound: children per session

ASSUME FoldAssumption ==
    /\ None \notin Sessions \union Plugins
    /\ MaxStrays \in Nat /\ MaxHistory \in Nat /\ MaxSpawned \in Nat

VARIABLES
    sessions,   \* the agent tree, held flat
    tools,      \* tool name -> owning plugin
    plugins,    \* plugin -> the tools it advertises
    approvals,  \* pending_approvals: action -> session
    pluginsInOrder,     \* history: no plugin up twice, no tool of two plugins
    strays              \* history: registrations out of order

callers == <<pluginsInOrder, strays>>

vars == <<sessions, tools, plugins, approvals, callers>>

-----------------------------------------------------------------------------

\* An AgentContext, or that the map has none (live = FALSE).
Context == [live : BOOLEAN, parent : Sessions \union {None},
            history : Nat, spawned : Seq(Sessions)]

Absent == [live |-> FALSE, parent |-> None, history |-> 0, spawned |-> << >>]
Root == [live |-> TRUE, parent |-> None, history |-> 0, spawned |-> << >>]
Child(p) == [live |-> TRUE, parent |-> p, history |-> 0, spawned |-> << >>]

Live(s) == sessions[s].live

\* A plugin's entry, or that the map has none.
Up(advertised) == [live |-> TRUE, tools |-> advertised]
Down == [live |-> FALSE, tools |-> {}]

PluginLive(p) == plugins[p].live

\* The sessions a session spawned, and the one that spawned it.
Spawned(s) == {sessions[s].spawned[i] : i \in 1..Len(sessions[s].spawned)}
ParentOf(s) == sessions[s].parent

Init ==
    /\ sessions = [s \in Sessions |-> Absent]
    /\ tools = [t \in Tools |-> None]
    /\ plugins = [p \in Plugins |-> Down]
    /\ approvals = [a \in Actions |-> None]
    /\ pluginsInOrder = TRUE /\ strays = 0

\* Mutant: insert instead of entry().or_insert_with().
PromptedAnew(s) == Root

Prompted(s) == IF Live(s) THEN sessions[s] ELSE Root

\* The first prompt of an unknown session creates it, as a root.
UserPrompt(s) ==
    LET ctx == Prompted(s)
    IN  /\ ctx.history < MaxHistory
        /\ sessions' = [sessions EXCEPT ![s] = [ctx EXCEPT !.history = ctx.history + 1]]
        /\ UNCHANGED <<tools, plugins, approvals, callers>>

ApprovalPending(s, a) ==
    /\ approvals' = [approvals EXCEPT ![a] = s]
    /\ UNCHANGED <<sessions, tools, plugins, callers>>

\* Keyed by the action alone: the event's session is not consulted.
UserApproval(a) ==
    /\ approvals' = [approvals EXCEPT ![a] = None]
    /\ UNCHANGED <<sessions, tools, plugins, callers>>

\* The latest plugin to advertise a name owns it.
PluginUp(p, advertised) ==
    /\ tools' = [t \in Tools |-> IF t \in advertised THEN p ELSE tools[t]]
    /\ plugins' = [plugins EXCEPT ![p] = Up(advertised)]
    /\ pluginsInOrder' = /\ pluginsInOrder
                         /\ ~PluginLive(p)
                         /\ \A q \in Plugins : plugins[q].tools \cap advertised = {}
    /\ UNCHANGED <<sessions, approvals, strays>>

\* Mutant: the tools of the plugin stay registered.
RetainedAll(p) == tools

\* self.tools.retain(|_, owner| owner != plugin)
Retained(p) == [t \in Tools |-> IF tools[t] = p THEN None ELSE tools[t]]

\* retain what others own, forget the plugin.
PluginDown(p) ==
    /\ tools' = Retained(p)
    /\ plugins' = [plugins EXCEPT ![p] = Down]
    /\ UNCHANGED <<sessions, approvals, callers>>

\* Mutants of WithChild: the parent's entry is replaced by one that knows
\* nothing but its children; the parent never learns of the child.
WithChildOnly(ctx, child) == [spawned |-> Append(ctx.spawned, child)]
WithoutChild(ctx, child) == ctx

\* p.spawned.push(child)
WithChild(ctx, child) == [ctx EXCEPT !.spawned = Append(ctx.spawned, child)]

\* Mutant of Registered: a known child keeps its context, with its children.
RegisteredAgain(child, parent) == [Prompted(child) EXCEPT !.parent = parent]

\* AgentContext::child, inserted whatever was there before.
Registered(child, parent) == Child(parent)

\* register_child: the parent is looked up after the child is inserted, and
\* only a known parent lists the child.  A session registered as its own parent
\* is known by then, and lists itself.
RegisterChild(child, parent) ==
    LET inserted == [sessions EXCEPT ![child] = Registered(child, parent)]
        found == inserted[parent]
    IN  /\ IF found.live
             THEN /\ Len(found.spawned) < MaxSpawned
                  /\ sessions' = [inserted EXCEPT ![parent] = WithChild(found, child)]
             ELSE sessions' = inserted
        /\ strays' = IF Live(parent) /\ ~Live(child) THEN strays ELSE strays + 1
        /\ strays' <= MaxStrays
        /\ UNCHANGED <<tools, plugins, approvals, pluginsInOrder>>

Next ==
    \/ \E s \in Sessions : UserPrompt(s)
    \/ \E s \in Sessions, a \in Actions : ApprovalPending(s, a)
    \/ \E a \in Actions : UserApproval(a)
    \/ \E p \in Plugins, advertised \in SUBSET Tools : PluginUp(p, advertised)
    \/ \E p \in Plugins : PluginDown(p)
    \/ \E child, parent \in Sessions : RegisterChild(child, parent)

Spec == Init /\ [][Next]_vars

-----------------------------------------------------------------------------
(* subtree: a queue of sessions, extended by the children of its i-th entry *)
(* until i reaches its end.  queue[i] is `out` after i iterations.          *)

Subtree(root) ==
    LET queue[i \in 0..Cardinality(Sessions)] ==
          IF i = 0 THEN << root >>
          ELSE LET out == queue[i - 1]
               IN  IF i <= Len(out) THEN out \o sessions[out[i]].spawned ELSE out
    IN  queue[Cardinality(Sessions)]

-----------------------------------------------------------------------------
(* Properties.                                                             *)

\* The maps of SystemState have their types.
TypeOK ==
    /\ sessions \in [Sessions -> Context]
    /\ tools \in [Tools -> Plugins \union {None}]
    /\ plugins \in [Plugins -> [live : BOOLEAN, tools : SUBSET Tools]]
    /\ approvals \in [Actions -> Sessions \union {None}]
    /\ pluginsInOrder \in BOOLEAN /\ strays \in 0..MaxStrays

\* subtree (state.rs:156-166) keeps no visited set: it ends unless it reaches a
\* cycle of the spawned lists.  The only cycle that any order of calls can make
\* is a session that lists itself, and the sessions that do are those last
\* registered as their own parent: every set of sessions has one that spawned
\* none of the others.  Registering a session again below its own descendant
\* closes no cycle, because it clears the session's list.
SpawnAcyclic ==
    /\ \A S \in SUBSET Sessions : S # {} => \E s \in S : Spawned(s) \cap S \subseteq {s}
    /\ \A s \in Sessions : s \in Spawned(s) <=> ParentOf(s) = s

\* No tool is ever registered to a plugin that is down, whatever names
\* plugins take from one another before they go (state.rs:85-95).
ToolOwnerLive == \A t \in Tools : tools[t] # None => PluginLive(tools[t])

\* As long as no plugin is announced twice without going down and no tool name
\* is advertised by two, the two plugin maps are each other's inverse: the
\* tools registered to a plugin are those it advertises (state.rs:17-20).
RegistryExact ==
    pluginsInOrder =>
        \A p \in Plugins : PluginLive(p) => plugins[p].tools = {t \in Tools : tools[t] = p}

\* As long as every registration is of a fresh child of a live parent, the
\* cancel cascade is exact: subtree ends and lists, once each and parents
\* first, the session, every session whose parent it lists, and nothing else
\* ("parent links reconstruct hierarchy", state.rs:15).
CascadeExact ==
    strays = 0 =>
        \A root \in Sessions : Live(root) =>
            LET out == Subtree(root)
                listed == {out[i] : i \in 1..Len(out)}
            IN  /\ Len(out) <= Cardinality(Sessions)
                /\ out[1] = root
                /\ \A i \in 2..Len(out) : \E j \in 1..i-1 : out[j] = ParentOf(out[i])
                /\ \A i, j \in 1..Len(out) : out[i] = out[j] => i = j
                /\ \A s \in Sessions : ParentOf(s) \in listed => s \in listed

\* A session keeps its context and its parent, what it was told and whom it
\* spawned.
Kept(s) ==
    /\ Live(s)'
    /\ ParentOf(s)' = ParentOf(s)
    /\ sessions'[s].history >= sessions[s].history
    /\ Spawned(s) \subseteq Spawned(s)'

\* No event and no call takes anything from a live session, except that
\* register_child of a session that is live already replaces its context; that
\* is a registration out of order, and costs no other session anything
\* (state.rs:30-47,148-153).
HistoryKept ==
    [][\A s \in Sessions : Live(s) /\ ~Kept(s) =>
          /\ strays' = strays + 1
          /\ \A t \in Sessions \ {s} : Live(t) => Kept(t)]_vars

=============================================================================
