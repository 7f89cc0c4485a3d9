--------------------------- MODULE MCConversations ---------------------------
(* Three members, one of them an admin of the workspace.  A group of all three with a
   message in it, a direct conversation, and a file ready to be sent; or a group that has
   just shrunk to two and nothing else; or a direct conversation and a file on a task.
   Requests, and the ids of new messages, are interchangeable. *)
EXTENDS Conversations, TLC

CONSTANTS ann, bob, eve, group, direct, spare, m1, m2, m3, f1

MCStarts ==
  { [chat |-> (group :> [name |-> "given", creator |-> bob, members |-> Members, recent |-> FALSE])
           @@ (direct :> [name |-> Null, creator |-> bob, members |-> {bob, eve}, recent |-> FALSE])
           @@ (spare :> Null),
     message |-> (m1 :> [chat |-> group, sender |-> bob, text |-> TRUE, replyTo |-> Null,
                         forwardedFrom |-> Null, deleted |-> FALSE])
              @@ (m2 :> Null) @@ (m3 :> Null),
     file |-> (f1 :> [by |-> bob, onTask |-> FALSE, message |-> Null])],
    [chat |-> [c \in Chats |-> IF c = group
                 THEN [name |-> "given", creator |-> bob, members |-> {bob, eve}, recent |-> TRUE] ELSE Null],
     message |-> [m \in Messages |-> Null],
     file |-> [f \in Files |-> Null]],
    [chat |-> [c \in Chats |-> IF c = direct
                 THEN [name |-> Null, creator |-> bob, members |-> {bob, eve}, recent |-> FALSE] ELSE Null],
     message |-> [m \in Messages |-> Null],
     file |-> [f \in Files |-> [by |-> bob, onTask |-> TRUE, message |-> Null]]] }

Symmetry == Permutations(Handlers) \cup Permutations({m2, m3})
=============================================================================
