----------------------------- MODULE ParrotChat -----------------------------
(***************************************************************************)
(* The chat with the parrot as one guest's tab shows it (src/frontend).    *)
(* The history is a cached answer of the parrot service; a reply is        *)
(* appended to the cache by hand, while the history may be on its way from *)
(* the service, which remembers a number of turns for a while. The panel's *)
(* own state goes when it is closed, its posts do not. Conversation says   *)
(* what the service does with a post.                                      *)
(***************************************************************************)
EXTENDS Integers, SequencesExt

CONSTANTS
    Posts,      \* posts in progress at once
    MaxSends,   \* bound: messages written
    MaxFaults,  \* bound: failed requests and lost answers
    MaxOverlaps,\* bound: overlaps of posts and GETs
    MaxTurns,   \* turns the parrot remembers: half its max_messages
    NoText      \* null

ASSUME ChatAssumption ==
    /\ Posts \subseteq Nat /\ IsFiniteSet(Posts)
    /\ MaxSends \in Nat /\ MaxFaults \in Nat /\ MaxOverlaps \in Nat
    /\ MaxTurns \in Nat
    /\ NoText \notin Nat

Loading == <<0>>                \* a query without data; no message has number 0
NoGet == [state |-> "idle", value |-> <<>>]
Idle == [state |-> "idle", text |-> NoText, mounted |-> FALSE]

VARIABLES
    server,      \* the parrot's history: the questions it has answered and remembers
    late,        \* questions that the parrot is still to answer while their posts have failed
    everKept,    \* history: all the questions that were ever part of it
    cache,       \* the cached history
    failing,     \* the error of the history's query
    get,         \* the GET of the history and its answer
    post,        \* the posts in progress
    open,        \* the panel is open
    pendingTurn, \* of the open panel
    failed,      \* failedTurn of the open panel
    sends,       \* messages written so far
    faults,      \* faults so far
    lost,        \* history: turns kept of which the tab was not told
    overlaps     \* history: posts and GETs sent while another post or a GET was on its way;
                 \* both since the tab last received the history as it is

parrot == <<server, late, everKept>>
history == <<parrot, cache, failing, get>>
panel == <<open, pendingTurn, failed>>
chatVars == <<history, post, panel, sends, faults, lost, overlaps>>

----------------------------------------------------------------------------
inFlight(s) == post[s].state # "idle"
isSending == \E s \in Posts : post[s].mounted
isHistoryReady == cache # Loading
isLoadingHistory == cache = Loading /\ get # NoGet
composerDisabled == isLoadingHistory \/ ~isHistoryReady \/ isSending

Overlap(busy) ==
    /\ ~busy \/ overlaps < MaxOverlaps
    /\ overlaps' = IF busy THEN overlaps + 1 ELSE overlaps

Busy == \E s \in Posts : inFlight(s)

\* Mounted, focused or retried; a GET in flight answers for all.
refetchHistory ==
    IF get # NoGet THEN UNCHANGED <<get, overlaps>>
    ELSE get' = [state |-> "sent", value |-> <<>>] /\ Overlap(Busy)

OpenPanel ==
    /\ ~open
    /\ open' = TRUE
    /\ refetchHistory
    /\ UNCHANGED <<parrot, cache, failing, post, pendingTurn, failed, sends, faults, lost>>

\* The state of the panel is gone, the posts go on.
ClosePanel ==
    /\ open
    /\ open' = FALSE
    /\ pendingTurn' = NoText /\ failed' = NoText
    /\ post' = [s \in Posts |-> [post[s] EXCEPT !.mounted = FALSE]]
    /\ UNCHANGED <<history, sends, faults, lost, overlaps>>

\* The window gets the focus, or the guest asks for the history once more.
Refetch ==
    /\ get = NoGet
    /\ refetchHistory
    /\ UNCHANGED <<parrot, cache, failing, post, panel, sends, faults, lost>>

mutate(s, text) ==
    /\ ~inFlight(s) /\ \A t \in Posts : ~inFlight(t) => s <= t
    /\ post' = [post EXCEPT ![s] = [state |-> "sent", text |-> text, mounted |-> TRUE]]
    /\ pendingTurn' = text /\ failed' = NoText
    /\ Overlap(get # NoGet \/ Busy)

sendMessage(s) ==
    /\ open /\ ~composerDisabled
    /\ sends < MaxSends
    /\ sends' = sends + 1
    /\ mutate(s, sends + 1)
    /\ UNCHANGED <<history, open, faults, lost>>

\* The button is in the thread, which an error of the query hides.
retryFailedMessage(s) ==
    /\ open /\ ~isLoadingHistory /\ ~failing
    /\ failed # NoText /\ ~isSending
    /\ mutate(s, failed)
    /\ UNCHANGED <<history, open, sends, faults, lost>>

----------------------------------------------------------------------------
\* store.append of a whole turn: its question and its answer are two messages of
\* content, and the oldest turn goes when there are too many.
Trimmed(h) == SubSeq(h, IF Len(h) > MaxTurns THEN Len(h) - MaxTurns + 1 ELSE 1, Len(h))

Keep(text) ==
    /\ server' = Trimmed(Append(server, text))
    /\ everKept' = Append(everKept, text)

\* The parrot has answered and has kept the turn.
Serve(s) ==
    /\ post[s].state = "sent"
    /\ Keep(post[s].text)
    /\ post' = [post EXCEPT ![s].state = "ok"]
    /\ UNCHANGED <<late, cache, failing, get, panel, sends, faults, lost, overlaps>>

\* The post fails: the parrot has not kept the turn, or has, or is still to.
ServeFails(s) ==
    /\ post[s].state = "sent"
    /\ faults < MaxFaults
    /\ faults' = faults + 1
    /\ post' = [post EXCEPT ![s].state = "error"]
    /\ \/ UNCHANGED <<parrot, lost>>
       \/ Keep(post[s].text) /\ lost' = lost + 1 /\ UNCHANGED late
       \/ late' = late \cup {<<faults', post[s].text>>} /\ UNCHANGED <<server, everKept, lost>>
    /\ UNCHANGED <<cache, failing, get, panel, sends, overlaps>>

\* The parrot comes to the end of a chat that nobody waits for.
ServeLate(o) ==
    /\ late' = late \ {o}
    /\ Keep(o[2])
    /\ lost' = lost + 1
    /\ UNCHANGED <<cache, failing, get, post, panel, sends, faults, overlaps>>

\* cleanup of the parrot, of a conversation that was not used for its time to
\* live or is one too many; or the parrot starts anew.
Forget ==
    /\ server # <<>>
    /\ server' = <<>>
    /\ UNCHANGED <<late, everKept, cache, failing, get, post, panel, sends, faults, lost, overlaps>>

ServeGet ==
    /\ get.state = "sent"
    /\ get' = [state |-> "answered", value |-> server]
    /\ UNCHANGED <<parrot, cache, failing, post, panel, sends, faults, lost, overlaps>>

ReceiveGet ==
    /\ get.state = "answered"
    /\ cache' = get.value
    /\ failing' = FALSE
    /\ get' = NoGet
    /\ IF get.value = server /\ ~Busy THEN lost' = 0 /\ overlaps' = 0 ELSE UNCHANGED <<lost, overlaps>>
    /\ UNCHANGED <<parrot, post, panel, sends, faults>>

\* The data stays; the panel shows the error instead of the thread.
FailGet ==
    /\ get # NoGet
    /\ faults < MaxFaults
    /\ faults' = faults + 1
    /\ failing' = TRUE
    /\ get' = NoGet
    /\ UNCHANGED <<parrot, cache, post, panel, sends, lost, overlaps>>

----------------------------------------------------------------------------
appendMessagesToHistory(previous, text) ==
    IF previous = Loading THEN <<text>> ELSE Append(previous, text)

\* Mutant: the reply is in the cache only when the panel is there to show it.
SuccessMountedOnly(s) ==
    /\ post[s].state = "ok"
    /\ cache' = IF post[s].mounted THEN appendMessagesToHistory(cache, post[s].text) ELSE cache
    /\ failing' = FALSE
    /\ IF post[s].mounted THEN pendingTurn' = NoText /\ failed' = NoText
                          ELSE UNCHANGED <<pendingTurn, failed>>
    /\ post' = [post EXCEPT ![s] = Idle]
    /\ UNCHANGED <<parrot, get, open, sends, faults, lost, overlaps>>

onSuccess(s) ==
    /\ post[s].state = "ok"
    /\ cache' = appendMessagesToHistory(cache, post[s].text)
    /\ failing' = FALSE
    /\ IF post[s].mounted THEN pendingTurn' = NoText /\ failed' = NoText
                          ELSE UNCHANGED <<pendingTurn, failed>>
    /\ post' = [post EXCEPT ![s] = Idle]
    /\ UNCHANGED <<parrot, get, open, sends, faults, lost, overlaps>>

\* Mutant: the failed turn stays pending.
ErrorKeepsPending(s) ==
    /\ post[s].state = "error"
    /\ IF post[s].mounted THEN failed' = post[s].text ELSE UNCHANGED failed
    /\ post' = [post EXCEPT ![s] = Idle]
    /\ UNCHANGED <<history, open, pendingTurn, sends, faults, lost, overlaps>>

onError(s) ==
    /\ post[s].state = "error"
    /\ IF post[s].mounted THEN pendingTurn' = NoText /\ failed' = post[s].text
                          ELSE UNCHANGED <<pendingTurn, failed>>
    /\ post' = [post EXCEPT ![s] = Idle]
    /\ UNCHANGED <<history, open, sends, faults, lost, overlaps>>

----------------------------------------------------------------------------
ChatInit ==
    /\ server = <<>> /\ late = {} /\ everKept = <<>>
    /\ cache = Loading /\ failing = FALSE
    /\ get = [state |-> "sent", value |-> <<>>]
    /\ post = [s \in Posts |-> Idle]
    /\ open = FALSE /\ pendingTurn = NoText /\ failed = NoText
    /\ sends = 0 /\ faults = 0 /\ lost = 0 /\ overlaps = 0

Guest == OpenPanel \/ ClosePanel \/ Refetch \/ \E s \in Posts : sendMessage(s) \/ retryFailedMessage(s)
Answers(s) == Serve(s) \/ onSuccess(s) \/ onError(s)

ChatNext ==
    \/ Guest \/ Forget \/ ServeGet \/ ReceiveGet \/ FailGet
    \/ \E s \in Posts : Answers(s) \/ ServeFails(s)
    \/ \E o \in late : ServeLate(o)

\* The parrot answers a post in the end and the tab handles the answer.
ChatFairness == \A s \in Posts : WF_chatVars(Answers(s))

ChatSpec == ChatInit /\ [][ChatNext]_chatVars
FairChatSpec == ChatSpec /\ ChatFairness

----------------------------------------------------------------------------
(***************************************************************************)
(* Properties                                                              *)
(***************************************************************************)
Quiet == get = NoGet /\ ~Busy

Copies(h, text) == Cardinality({i \in DOMAIN h : h[i] = text})

\* The thread is the conversation. Once nothing is on its way, and if no answer
\* was lost and no post met a GET or another post since the history was last
\* received as it is, the thread ends with all that the parrot remembers and is
\* itself the end of what the parrot was ever asked: no turn is missing, doubled
\* or out of place, also when the panel was closed meanwhile, and what the thread
\* shows beyond the parrot's memory was trimmed or expired. Otherwise a turn is
\* missing or doubled at most once for each answer lost and each overlap. The
\* cache is written by a refetch and by hand, and never trimmed.
ViewAgrees ==
    Quiet /\ cache # Loading =>
        /\ lost + overlaps = 0 => IsSuffix(server, cache) /\ IsSuffix(cache, everKept)
        /\ \A text \in 1 .. sends :
             /\ Copies(server, text) - Copies(cache, text) <= lost + overlaps
             /\ Copies(cache, text) - Copies(everKept, text) <= overlaps

\* A message that is pending is answered or fails in the end; the panel never
\* goes on thinking.
ThinkingEnds == pendingTurn # NoText ~> pendingTurn = NoText
====
