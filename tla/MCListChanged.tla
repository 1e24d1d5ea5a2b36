---------------------------- MODULE MCListChanged ----------------------------
(* A small instance of ListChanged for TLC. *)
EXTENDS ListChanged

CONSTANTS h1, h2, t1, t2, tools, resources

TwoHandlers == {h1, h2}
BothKinds == {tools, resources}
OnlyTools == {tools}
TwoTasks == {t1, t2}
ToolsFirst == <<tools, resources>>
=============================================================================
