--------------------------- MODULE RefreshContract ---------------------------
(***************************************************************************)
(* What ToolRouter::refresh_tools promises its callers, whatever other     *)
(* refreshes run beside it.  Upstream catalogs change; a caller asks for a *)
(* refresh; snapshots are published; when the caller's await returns, the  *)
(* published snapshot is at least as new as the catalogs were when it      *)
(* asked, except for the listings that were carried forward because the    *)
(* upstream did not answer them.  Published snapshots never go back.       *)
(***************************************************************************)
EXTENDS Integers

CONSTANTS
    Callers,        \* tasks that may await refresh_tools
    Families,       \* catalog families of the upstream: tools, resources, ...
    MaxVersion      \* bound: catalog changes explored

VARIABLES
    upstream,       \* version of the upstream's catalogs; every change bumps it
    published,      \* family -> version in the published RouterSnapshot
    carried,        \* families of that snapshot served from last-known-good
    call,           \* caller -> "idle" | "asked" | "done"
    asked           \* caller -> upstream version when its latest call began

vars == <<upstream, published, carried, call, asked>>

Init ==
    /\ upstream = 0
    /\ published = [f \in Families |-> 0]
    /\ carried = {}
    /\ call = [c \in Callers |-> "idle"]
    /\ asked = [c \in Callers |-> 0]

\* The published snapshot answers a caller that asked at version v.
FreshSince(v) == \A f \in Families \ carried : published[f] >= v

Change ==
    /\ upstream < MaxVersion
    /\ upstream' = upstream + 1
    /\ UNCHANGED <<published, carried, call, asked>>

Ask(c) ==
    /\ call[c] # "asked"
    /\ call' = [call EXCEPT ![c] = "asked"]
    /\ asked' = [asked EXCEPT ![c] = upstream]
    /\ UNCHANGED <<upstream, published, carried>>

Publish ==
    \E snapshot \in [Families -> 0..upstream], kept \in SUBSET Families :
        /\ \A f \in Families : snapshot[f] >= published[f]
        /\ published' = snapshot
        /\ carried' = kept
        /\ UNCHANGED <<upstream, call, asked>>

Return(c) ==
    /\ call[c] = "asked"
    /\ FreshSince(asked[c])
    /\ call' = [call EXCEPT ![c] = "done"]
    /\ UNCHANGED <<upstream, published, carried, asked>>

\* The caller's future is dropped: a timeout, or its own owner went away.
Cancel(c) ==
    /\ call[c] = "asked"
    /\ call' = [call EXCEPT ![c] = "idle"]
    /\ UNCHANGED <<upstream, published, carried, asked>>

Next ==
    \/ Change
    \/ Publish
    \/ \E c \in Callers : Ask(c) \/ Return(c) \/ Cancel(c)

Spec == Init /\ [][Next]_vars
=============================================================================
