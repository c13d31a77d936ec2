------------------------------ MODULE MCChats ------------------------------
(* The two chats, one at a time, for they share nothing: the shell's, with *)
(* two processes on one thread, and a reply with two calls of which the    *)
(* result of one is cut when it is old; and the plugin's, with two threads *)
(* and a window that cuts turns with two calls.                            *)
EXTENDS Conversation, ChatSession, TLC

CONSTANTS p1, p2, t1, t2, s1
VARIABLE chat

ShortReplies == {<<1, 2>>}
ThirdTurnOfOne == p1 :> 3 @@ p2 :> 1

ChatsInit == chat \in {"shell", "plugin"} /\ Init /\ ChatInit
ShellNext == chat = "shell" /\ Next /\ UNCHANGED <<chat, chatVars>>
PluginNext == chat = "plugin" /\ ChatNext /\ UNCHANGED <<chat, vars>>
ChatsSpec ==
  /\ ChatsInit /\ [][ShellNext \/ PluginNext]_<<chat, vars, chatVars>>
  /\ \A p \in Procs : WF_vars(Turn(p))
  /\ \A s \in Sends : WF_chatVars(Proceeds(s))
=============================================================================
