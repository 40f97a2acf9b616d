-------------------------------- MODULE Routes --------------------------------
(***************************************************************************)
(* Who may run which command (pkg/telegram/route, pkg/telegram/menu.go and   *)
(* consumer.buildRoutes): the enabled built-ins and the operator's script    *)
(* declare commands, one handler is kept for each name, the menu of the      *)
(* first MenuMax names is published scope by scope while the bot polls, and  *)
(* an update runs a handler only from an allowed chat.                       *)
(*                                                                          *)
(* Names are naturals, in the order of the strings; every built-in has one   *)
(* valid name of its own, the script declares anything.                      *)
(***************************************************************************)
EXTENDS Integers, Sequences, FiniteSets, FiniteSetsExt, SequencesExt

CONSTANTS
  Users,        \* ids of users, and of their chats with the bot
  Chats,        \* ids of groups and channels
  BuiltinNames, \* names of the built-in commands
  ScriptNames,  \* names the script may declare
  ScriptMax,    \* bound: commands the script declares
  MenuMax       \* maxMenuCommands

VARIABLES
  allow,        \* AccessList.ids
  builtins,     \* names of the enabled built-ins
  script,       \* the script's commands, in its order
  routes,       \* consumer.Start's handlers: name -> handler
  menu,         \* consumer.menu
  cleared,      \* the default menu was deleted
  todo,         \* scopes not tried yet
  published,    \* scopes that show the menu
  failed,       \* scopes whose call failed
  ran           \* the last update's outcome

vars == <<allow, builtins, script, routes, menu, cleared, todo, published, failed, ran>>

\* A built-in's handler is named by its command.
Script == 0
None == -1

Declared == [name : ScriptNames, valid : BOOLEAN]

Init ==
  /\ allow \in SUBSET (Users \cup Chats) /\ builtins \in SUBSET BuiltinNames
  /\ script \in UNION {[1..n -> Declared] : n \in 0..ScriptMax}
  /\ routes = <<>> /\ menu = <<>> /\ cleared = FALSE /\ todo = {} /\ published = {} /\ failed = {} /\ ran = <<>>

-----------------------------------------------------------------------------
(* Commands *)

Builtin(n) == [name |-> n, valid |-> TRUE]

\* BuildCommands: valid, and its name not taken by an earlier command.
KeepFirst(routed, c) ==
  IF c.valid /\ ~\E i \in DOMAIN routed : routed[i].name = c.name THEN Append(routed, c) ELSE routed

\* The built-ins sorted by name, then the script in its own order.
BuildCommands ==
  FoldLeft(KeepFirst, <<>>, [i \in 1..Cardinality(builtins) |-> Builtin(SetToSortSeq(builtins, <)[i])] \o script)

\* A plausible fault: the script is asked first.
ScriptOwner(n) == IF \E i \in DOMAIN script : script[i].name = n THEN Script ELSE n

\* buildRoutes: a script name equal to a built-in stays with the built-in.
Owner(n) == IF n \in builtins THEN n ELSE Script

Build ==
  /\ menu = <<>> /\ routes = <<>>
  /\ LET routed == BuildCommands
     IN /\ routes' = [n \in {routed[i].name : i \in DOMAIN routed} |-> Owner(n)]
        /\ menu' = SubSeq(routed, 1, IF Len(routed) > MenuMax THEN MenuMax ELSE Len(routed))
  /\ menu' /= <<>>
  /\ UNCHANGED <<allow, builtins, script, cleared, todo, published, failed, ran>>

-----------------------------------------------------------------------------
(* Access *)

Allowed(id) == id \in allow

\* A plausible fault: anyone in an allowed group may run a command.
PermitChat(kind, chat, sender) == Allowed(chat)

Permit(kind, chat, sender) ==
  /\ Allowed(chat)
  /\ kind = "group" => Allowed(sender)

\* MenuScopes: every allowed user alone, and in every allowed group.
MenuScopes ==
  {[chat |-> u, user |-> 0] : u \in allow \cap Users}
    \cup {[chat |-> g, user |-> u] : g \in allow \cap Chats, u \in allow \cap Users}

\* publishMenu: delete the default menu, then one call for every scope.
DeleteDefault ==
  /\ menu /= <<>> /\ ~cleared
  /\ cleared' = TRUE /\ todo' = MenuScopes
  /\ UNCHANGED <<allow, builtins, script, routes, menu, published, failed, ran>>

\* A failed call does not stop the ones that follow.
SetCommands ==
  /\ \E s \in todo :
       /\ todo' = todo \ {s}
       /\ \/ published' = published \cup {s} /\ UNCHANGED failed
          \/ failed' = failed \cup {s} /\ UNCHANGED published
  /\ UNCHANGED <<allow, builtins, script, routes, menu, cleared, ran>>

\* The cancelled run context ends the publishing before its next call.
CancelMenu ==
  /\ todo /= {}
  /\ failed' = failed \cup todo /\ todo' = {}
  /\ UNCHANGED <<allow, builtins, script, routes, menu, cleared, published, ran>>

\* handleCommand and handleCommands: an update of another bot, a chat that is not
\* permitted or an unknown name runs nothing.
Update(kind, chat, sender, name, ours) ==
  /\ routes /= <<>>
  /\ ran' = [kind |-> kind, chat |-> chat, sender |-> sender, name |-> name, ours |-> ours,
             by |-> IF ours /\ Permit(kind, chat, sender) /\ name \in DOMAIN routes THEN routes[name] ELSE None]
  /\ UNCHANGED <<allow, builtins, script, routes, menu, cleared, todo, published, failed>>

Source(kind) ==
  CASE kind = "private" -> {<<u, u>> : u \in Users}
    [] kind = "group" -> Chats \X Users
    [] kind = "channel" -> Chats \X {0}

Next ==
  \/ Build \/ DeleteDefault \/ SetCommands \/ CancelMenu
  \/ \E kind \in {"private", "group", "channel"}, name \in BuiltinNames \cup ScriptNames, ours \in BOOLEAN :
       \E s \in Source(kind) :
         todo = {} /\ cleared /\ ran = <<>> /\ Update(kind, s[1], s[2], name, ours)

Spec == Init /\ [][Next]_vars

-----------------------------------------------------------------------------

\* The scope in which this user sees a menu in this chat.
ScopeOf(kind, chat, sender) == [chat |-> chat, user |-> IF kind = "group" THEN sender ELSE 0]

Listed(n) == \E i \in DOMAIN menu : menu[i].name = n

\* The menu tells the truth: what it lists where it is shown runs when sent from
\* there, by the handler that declared it (a built-in before the script); and who may
\* run commands sees the menu, unless its call failed or the stop came first.
MenuIsTrue ==
  ran /= <<>> /\ ran.ours /\ ran.kind /= "channel" =>
    LET scope == ScopeOf(ran.kind, ran.chat, ran.sender)
    IN /\ scope \in published /\ Listed(ran.name) =>
            ran.by = (IF ran.name \in builtins THEN ran.name ELSE Script)
       /\ ran.by /= None => scope \in published \cup failed
==============================================================================
