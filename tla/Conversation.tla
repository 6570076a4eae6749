---------------------------- MODULE Conversation ----------------------------
(***************************************************************************)
(* The parrot's chats (src/services/parrot): the tool-calling loop of      *)
(* chat and chat_stream, and the store of conversations they read before   *)
(* the first await and extend after the last. All of it runs on one event  *)
(* loop; other chats, the cleanup and a client's disconnect get their turn *)
(* at every await and every yield.                                         *)
(***************************************************************************)
EXTENDS Integers, SequencesExt

CONSTANTS
    Guests,             \* guest ids
    NoGuest,            \* a request without guest_id
    Bodies,             \* <<guest_id, whether the endpoint streams>>
    MaxChats,           \* bound: requests
    MAX_TOOL_ROUNDS,
    max_messages, ttl, max_conversations,
    MaxCalls,           \* bound: tool calls the model asks for in one round
    MaxTime             \* bound: the clock stops there

ASSUME ConversationAssumption ==
    /\ NoGuest \notin Guests
    /\ IsFiniteSet(Guests)
    /\ Bodies \subseteq (Guests \cup {NoGuest}) \X BOOLEAN
    /\ MaxChats \in Nat
    /\ MAX_TOOL_ROUNDS \in Nat \ {0}
    /\ max_messages \in Nat /\ max_messages >= 2
    /\ ttl \in Nat /\ max_conversations \in Nat
    /\ MaxCalls \in Nat /\ MaxTime \in Nat

Chats == 1 .. MaxChats   \* in the order in which they begin

\* A message: of the user, of the model with tool calls, of a tool, or of the
\* model with content only; and the chat it belongs to.
Message == [role : {"user", "calls", "tool", "assistant"}, calls : 0 .. MaxCalls, chat : Chats]

VARIABLES
    messages,        \* a guest's conversation, <<>> when there is none
    last_accessed,
    now,
    pc,              \* where a chat stands
    guest, stream,   \* its guest_id and endpoint
    round, pending,  \* its turn of the loop and the calls of it still to run
    new_messages,
    began,           \* history: when a running chat began
    cut              \* history: the streams that broke off

store == <<messages, last_accessed>>
chat == <<pc, guest, stream, round, pending, new_messages, began, cut>>
vars == <<store, now, chat>>

Msg(c, r, n) == [role |-> r, calls |-> n, chat |-> c]
Known == {g \in Guests : messages[g] # <<>>}
Running == {"created", "llm", "tool"}

----------------------------------------------------------------------------
(***************************************************************************)
(* ConversationStore                                                       *)
(***************************************************************************)
content_count(msgs) ==
    Cardinality({i \in DOMAIN msgs : msgs[i].role \in {"user", "assistant"}})

from(msgs, i) == SubSeq(msgs, i, Len(msgs))

\* Mutant: one message is dropped at a time.
trim_one(msgs) ==
    from(msgs, CHOOSE i \in 1 .. Len(msgs) + 1 :
        /\ content_count(from(msgs, i)) <= max_messages
        /\ \A j \in 1 .. i - 1 : content_count(from(msgs, j)) > max_messages)

\* Turns are dropped from the front, each up to the next message of the user.
_trim(msgs) ==
    LET cuts == {1, Len(msgs) + 1} \cup {i \in 1 .. Len(msgs) : msgs[i].role = "user"}
        fits(i) == content_count(from(msgs, i)) <= max_messages
    IN  from(msgs, CHOOSE i \in cuts : fits(i) /\ \A j \in cuts : fits(j) => i <= j)

append(g, msgs) ==
    IF g = NoGuest THEN UNCHANGED store
    ELSE /\ messages' = [messages EXCEPT ![g] = _trim(@ \o msgs)]
         /\ last_accessed' = [last_accessed EXCEPT ![g] = now]

\* Mutant: reading a conversation does not keep it alive.
get_messages_peek(g) == UNCHANGED store

get_messages(g) ==
    /\ last_accessed' = IF g \in Known THEN [last_accessed EXCEPT ![g] = now] ELSE last_accessed
    /\ UNCHANGED messages

\* First the expired ones go, then the oldest of those that are too many;
\* which of two of the same age is older is left open.
cleanup ==
    /\ \E kept \in SUBSET {g \in Known : now - last_accessed[g] <= ttl} :
        LET fresh == {g \in Known : now - last_accessed[g] <= ttl} IN
        /\ kept # Known
        /\ Cardinality(kept) = Min({Cardinality(fresh), max_conversations})
        /\ \A g \in kept, h \in fresh \ kept : last_accessed[g] >= last_accessed[h]
        /\ messages' = [g \in Guests |-> IF g \in kept THEN messages[g] ELSE <<>>]
        /\ last_accessed' = [g \in Guests |-> IF g \in kept THEN last_accessed[g] ELSE 0]
    /\ UNCHANGED <<now, chat>>

----------------------------------------------------------------------------
Init ==
    /\ messages = [g \in Guests |-> <<>>]
    /\ last_accessed = [g \in Guests |-> 0]
    /\ now = 0
    /\ pc = [c \in Chats |-> "idle"]
    /\ guest = [c \in Chats |-> NoGuest]
    /\ stream = [c \in Chats |-> FALSE]
    /\ round = [c \in Chats |-> 0]
    /\ pending = [c \in Chats |-> 0]
    /\ new_messages = [c \in Chats |-> <<>>]
    /\ began = [c \in Chats |-> 0]
    /\ cut = {}

\* _assemble, and the first request to the model.
Assemble(c) ==
    /\ pc' = [pc EXCEPT ![c] = "llm"]
    /\ round' = [round EXCEPT ![c] = 1]
    /\ new_messages' = [new_messages EXCEPT ![c] = <<Msg(c, "user", 0)>>]

\* The endpoint reads the history. chat goes on to its first await; the body of
\* chat_stream does not run before the response is sent.
Start(c, g, s) ==
    /\ pc[c] = "idle" /\ \A d \in 1 .. c - 1 : pc[d] # "idle"
    /\ guest' = [guest EXCEPT ![c] = g]
    /\ stream' = [stream EXCEPT ![c] = s]
    /\ began' = [began EXCEPT ![c] = now]
    /\ get_messages(g)
    /\ \/ s /\ pc' = [pc EXCEPT ![c] = "created"] /\ UNCHANGED <<round, new_messages>>
       \/ ~s /\ Assemble(c)
    /\ UNCHANGED <<now, pending, cut>>

BeginStream(c) ==
    /\ pc[c] = "created"
    /\ Assemble(c)
    /\ UNCHANGED <<store, now, guest, stream, pending, began, cut>>

\* The chat is over and what it leaves is stored, or nothing is.
Finish(c, msgs, saved) ==
    /\ pc' = [pc EXCEPT ![c] = "done"]
    /\ pending' = [pending EXCEPT ![c] = 0]
    /\ round' = [round EXCEPT ![c] = 0]
    /\ new_messages' = [new_messages EXCEPT ![c] = <<>>]
    /\ guest' = [guest EXCEPT ![c] = NoGuest]
    /\ stream' = [stream EXCEPT ![c] = FALSE]
    /\ began' = [began EXCEPT ![c] = 0]
    /\ IF saved THEN append(guest[c], msgs) ELSE UNCHANGED store
    /\ UNCHANGED now

\* Mutant: the loop has no end.
NextRoundForever(c, msgs) ==
    /\ pc' = [pc EXCEPT ![c] = "llm"]
    /\ round' = [round EXCEPT ![c] = 1]
    /\ pending' = [pending EXCEPT ![c] = 0]
    /\ new_messages' = [new_messages EXCEPT ![c] = <<Msg(c, "user", 0)>>]
    /\ UNCHANGED <<store, now, guest, stream, began, cut>>

\* After the last call of a round: the model is asked again, or, when the
\* rounds are used up, the answer is FALLBACK.
NextRound(c, msgs) ==
    \/ /\ round[c] < MAX_TOOL_ROUNDS
       /\ pc' = [pc EXCEPT ![c] = "llm"]
       /\ round' = [round EXCEPT ![c] = @ + 1]
       /\ pending' = [pending EXCEPT ![c] = 0]
       /\ new_messages' = [new_messages EXCEPT ![c] = msgs]
       /\ UNCHANGED <<store, now, guest, stream, began, cut>>
    \/ /\ round[c] = MAX_TOOL_ROUNDS
       /\ Finish(c, Append(msgs, Msg(c, "assistant", 0)), TRUE)
       /\ UNCHANGED cut

\* The model asks for tools. Only chat can be told of none: a stream without
\* fragments is an answer.
LlmCalls(c, n) ==
    LET msgs == Append(new_messages[c], Msg(c, "calls", n)) IN
    /\ pc[c] = "llm"
    /\ n = 0 => ~stream[c]
    /\ \/ /\ n = 0
          /\ NextRound(c, msgs)
       \/ /\ n > 0
          /\ pc' = [pc EXCEPT ![c] = "tool"]
          /\ pending' = [pending EXCEPT ![c] = n]
          /\ new_messages' = [new_messages EXCEPT ![c] = msgs]
          /\ UNCHANGED <<store, now, guest, stream, round, began, cut>>

LlmAnswers(c) ==
    /\ pc[c] = "llm"
    /\ Finish(c, Append(new_messages[c], Msg(c, "assistant", 0)), TRUE)
    /\ UNCHANGED cut

\* A tool that fails has an error for its result.
RunTool(c) ==
    LET msgs == Append(new_messages[c], Msg(c, "tool", 0)) IN
    /\ pc[c] = "tool"
    /\ \/ /\ pending[c] > 1
          /\ pending' = [pending EXCEPT ![c] = @ - 1]
          /\ new_messages' = [new_messages EXCEPT ![c] = msgs]
          /\ UNCHANGED <<store, now, pc, guest, stream, round, began, cut>>
       \/ /\ pending[c] = 1
          /\ NextRound(c, msgs)

\* The model is out of reach, or a tool raises what execute_tool does not
\* catch. chat stores nothing; chat_stream stores what it has.
Fails(c) ==
    /\ pc[c] \in {"llm", "tool"}
    /\ Finish(c, new_messages[c], stream[c])
    /\ cut' = IF stream[c] THEN cut \cup {c} ELSE cut

\* The client goes away: a generator that has started runs its finally.
Disconnect(c) ==
    /\ stream[c]
    /\ pc[c] \in Running
    /\ Finish(c, new_messages[c], pc[c] # "created")
    /\ cut' = cut \cup {c}

Tick ==
    /\ now < MaxTime
    /\ now' = now + 1
    /\ UNCHANGED <<store, chat>>

Progress(c) ==
    \/ BeginStream(c) \/ LlmAnswers(c) \/ RunTool(c) \/ Fails(c)
    \/ \E n \in 0 .. MaxCalls : LlmCalls(c, n)

Next ==
    \/ \E c \in Chats :
        \/ \E b \in Bodies : Start(c, b[1], b[2])
        \/ Progress(c) \/ Disconnect(c)
    \/ cleanup \/ Tick

\* The requests to the model and to the services have timeouts, so a chat that
\* waits goes on; clients need not chat, stay or go.
Fairness == \A c \in Chats : WF_vars(Progress(c))

Spec == Init /\ [][Next]_vars
FairSpec == Spec /\ Fairness

----------------------------------------------------------------------------
(***************************************************************************)
(* Properties                                                              *)
(***************************************************************************)

\* A group of tool calls has a result for each, right behind it.
answered(msgs, i) ==
    \A k \in 1 .. msgs[i].calls :
        i + k <= Len(msgs) /\ msgs[i + k].role = "tool" /\ msgs[i + k].chat = msgs[i].chat

\* README.md: "When the cap is exceeded, the oldest user-assistant pairs are
\* trimmed." Chats of a guest overlap, break off and are trimmed, and still a
\* conversation is a sequence of turns within the cap: each begins with its
\* user's message, none is interrupted by another, no turn is cut by trimming,
\* and tool calls have their results, unless the stream broke off there.
WholeTurns ==
    \A g \in Guests : LET msgs == messages[g] IN
        /\ content_count(msgs) <= max_messages
        /\ msgs # <<>> => msgs[1].role = "user"
        /\ \A i \in 1 .. Len(msgs) :
            /\ i > 1 => (msgs[i].role = "user" <=> msgs[i].chat # msgs[i - 1].chat)
            /\ \A j \in 1 .. i : msgs[i].role = "user" /\ msgs[j].chat = msgs[i].chat => i = j
            /\ msgs[i].role = "calls" => answered(msgs, i) \/ msgs[i].chat \in cut

\* A conversation is not lost under a chat that is being answered with it:
\* cleanup, which knows nothing of the chats that wait for the model or for a
\* tool, removes the conversation of a running chat only when the chat has run
\* longer than the time to live, or when as many conversations as may be were
\* used since it began.
KeptUnderChat ==
    [][\A c \in Chats : pc[c] \in Running /\ guest[c] \in Known /\ messages'[guest[c]] = <<>> =>
        \/ now - began[c] > ttl
        \/ Cardinality({h \in Known \ {guest[c]} : last_accessed[h] >= began[c]}) >= max_conversations]_vars

\* Every chat comes to an end: the model cannot keep it in the loop.
EveryChatEnds == \A c \in Chats : pc[c] # "idle" ~> pc[c] = "done"
====
