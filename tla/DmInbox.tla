-------------------------------- MODULE DmInbox --------------------------------
(***************************************************************************)
(* The NIP-17 inbox of one account on a device, from the gift wraps that    *)
(* relays deliver to the messages of a conversation.                        *)
(*                                                                         *)
(* A subscription collects what it unwraps in a buffer until the relays     *)
(* have sent what they hold (EOSE), and shows it in one update; a second    *)
(* subscription replaces it once the account's relay lists are known.       *)
(* Unwrapping asks the signer, so handlers, retries and the pages of older  *)
(* messages overlap.  Closing a subscription takes a while: it may deliver  *)
(* until its connections are open and closed again, and the relay library   *)
(* then reports EOSE for it.  Left out: the account's own messages and      *)
(* their copies, wraps of other kinds (processed at once), badges, the cap  *)
(* of a conversation, a change of account.                                  *)
(***************************************************************************)
EXTENDS Integers, FiniteSets

CONSTANTS
    Message,    \* wraps of messages: texts, and files sent on their own
    File,       \* wraps of files that belong to a message
    Parent,     \* the message a file belongs to
    Stamp,      \* the wrap's own, randomised timestamp
    Retries,    \* length of UNWRAP_RETRY_DELAYS_MS
    MaxSub,     \* subscriptions of a session
    MaxFailure, \* bound: how often a wrap's unwrap fails for no fault of its own
    None

Wrap == Message \cup File

Sub == 1..MaxSub

ASSUME InboxAssumption ==
    /\ Message \cap File = {}
    /\ Parent \in [File -> Message]
    /\ Stamp \in [Wrap -> Nat]
    /\ Retries \in Nat /\ MaxSub \in Nat /\ MaxFailure \in [Wrap -> Nat]
    /\ None \notin File

VARIABLES
    sub,        \* the last subscription started
    reach,      \* the wraps it will be given (see Start)
    initial,    \* subscriptions that have not reported EOSE (initialPhase)
    given,      \* the wraps each subscription has delivered
    since,      \* stamps below it are filtered out of the subscription
    buffer,     \* dmBuffer of each subscription
    handling,   \* subscription handlers waiting for their unwrap
    inflight,   \* inflightWrapIds
    processed,  \* processedWrapIds
    attempts,   \* failedWraps: failures so far, 0 without an entry
    timers,     \* retry timers armed, per wrap
    retrying,   \* retries waiting for their unwrap, per wrap
    page,       \* wraps of a page of older messages still to be unwrapped
    shown,      \* messages in the conversation
    attached,   \* the file each message shows
    waiting,    \* pendingFileAttachments
    gaveUp,     \* wraps retried in vain (history variable)
    failures    \* failed unwraps of each wrap, for no fault of its own

subs == <<sub, reach, initial, given, since>>
retries == <<attempts, timers, retrying, gaveUp, failures>>
chat == <<shown, attached, waiting>>
unwraps == <<buffer, handling, inflight, processed>>
vars == <<subs, unwraps, retries, page, chat>>

TypeOK ==
    /\ sub \in 0..MaxSub /\ reach \in SUBSET Wrap /\ initial \in SUBSET Sub
    /\ given \in [Sub -> SUBSET Wrap] /\ since \in [Sub -> Nat]
    /\ buffer \in [Sub -> SUBSET Wrap]
    /\ handling \in SUBSET (Sub \X Wrap)
    /\ inflight \in SUBSET Wrap /\ processed \in SUBSET Wrap
    /\ attempts \in [Wrap -> 0..Retries]
    /\ timers \in [Wrap -> Nat] /\ retrying \in [Wrap -> Nat]
    /\ page \in SUBSET Wrap
    /\ shown \in SUBSET Message /\ attached \in [Message -> File \cup {None}]
    /\ waiting \in SUBSET File
    /\ gaveUp \in SUBSET Wrap /\ failures \in [Wrap -> Nat]

Init ==
    /\ sub = 0 /\ reach = {} /\ initial = {}
    /\ given = [s \in Sub |-> {}] /\ since = [s \in Sub |-> 0]
    /\ buffer = [s \in Sub |-> {}] /\ handling = {} /\ inflight = {} /\ processed = {}
    /\ attempts = [w \in Wrap |-> 0] /\ timers = [w \in Wrap |-> 0]
    /\ retrying = [w \in Wrap |-> 0] /\ gaveUp = {} /\ failures = [w \in Wrap |-> 0]
    /\ page = {}
    /\ shown = {} /\ attached = [m \in Message |-> None] /\ waiting = {}

-----------------------------------------------------------------------------
(* Adding messages to the conversation: addDMToConversations.               *)

\* Taking the wraps B into the conversation, in any order.  A file whose
\* message is not there waits for it; of several files one is shown.
FilesOf(m, S) == {f \in S \cap File : Parent[f] = m}

Takes_IgnoresWaiting(new) == {}

Takes(new) == {f \in waiting : Parent[f] \in new}

Arrived(new, B) ==
    LET here == shown \cup new
        files(m) == FilesOf(m, Takes(new)) \cup (IF m \in here THEN FilesOf(m, B) ELSE {})
    IN  /\ shown' = here
        /\ waiting' = (waiting \ Takes(new)) \cup {f \in B \cap File : Parent[f] \notin here}
        /\ attached' \in {a \in [Message -> File \cup {None}] :
                            \A m \in Message : IF files(m) = {} THEN a[m] = attached[m]
                                                                ELSE a[m] \in files(m)}

New(B) == (B \cap Message) \ shown

Adds(B) == Arrived(New(B), B)

-----------------------------------------------------------------------------
(* Retries: scheduleUnwrapRetry, clearUnwrapRetries.                        *)

Failed_Blacklists(w) ==
    /\ processed' = processed \cup {w}
    /\ UNCHANGED <<attempts, timers, gaveUp>>

\* After the last delay the wrap is skipped for the rest of the session.
Failed(w) ==
    IF attempts[w] >= Retries
    THEN /\ attempts' = [attempts EXCEPT ![w] = 0]
         /\ processed' = processed \cup {w}
         /\ gaveUp' = gaveUp \cup {w}
         /\ UNCHANGED timers
    ELSE /\ attempts' = [attempts EXCEPT ![w] = @ + 1]
         /\ timers' = [timers EXCEPT ![w] = @ + 1]
         /\ UNCHANGED <<processed, gaveUp>>

\* The signer times out or its circuit is open.
Transient(w) ==
    /\ failures[w] < MaxFailure[w]
    /\ failures' = [failures EXCEPT ![w] = @ + 1]

Fire(w) ==
    /\ timers[w] > 0
    /\ timers' = [timers EXCEPT ![w] = @ - 1]
    /\ retrying' = IF attempts[w] = 0 THEN retrying
                                      ELSE [retrying EXCEPT ![w] = @ + 1]
    /\ UNCHANGED <<subs, unwraps, page, chat, attempts, gaveUp, failures>>

Retried(w) ==
    /\ retrying[w] > 0
    /\ retrying' = [retrying EXCEPT ![w] = @ - 1]
    /\ attempts' = [attempts EXCEPT ![w] = 0]
    /\ processed' = processed \cup {w}
    /\ IF w \in processed THEN UNCHANGED chat ELSE Adds({w})
    /\ UNCHANGED <<subs, buffer, handling, inflight, page, timers, gaveUp, failures>>

RetryFails(w) ==
    /\ retrying[w] > 0
    /\ Transient(w)
    /\ retrying' = [retrying EXCEPT ![w] = @ - 1]
    /\ Failed(w)
    /\ UNCHANGED <<subs, buffer, handling, inflight, page, chat>>

-----------------------------------------------------------------------------
(* The subscription: startSubscription and its handlers.                    *)

Replaces_Discards == {}

\* The subscriptions that report EOSE after a new one has closed them.
Replaces == initial

\* When hubs are usable, and once more when the relay lists are known.  It brings the
\* INITIAL_LIMIT newest wraps of its relays, and those that are published later, whatever
\* their stamps; of the others it brings none.
Start ==
    /\ sub < MaxSub
    /\ sub' = sub + 1 /\ reach' \in SUBSET Wrap
    /\ initial' = Replaces \cup {sub'}
    /\ attempts' = [w \in Wrap |-> 0] /\ timers' = [w \in Wrap |-> 0]
    /\ inflight' = {}
    /\ UNCHANGED <<given, since, buffer, handling, processed, retrying, gaveUp, failures, page,
                   chat>>

Fresh(w) == w \notin processed \cup inflight

\* The pool hands a wrap to a subscription once, a closed one included.
Receive(s, w) ==
    /\ s <= sub /\ (s = sub => w \in reach)
    /\ w \notin given[s] /\ Stamp[w] >= since[s]
    /\ given' = [given EXCEPT ![s] = @ \cup {w}]
    /\ IF Fresh(w) THEN /\ inflight' = inflight \cup {w}
                        /\ handling' = handling \cup {<<s, w>>}
                   ELSE UNCHANGED <<inflight, handling>>
    /\ UNCHANGED <<sub, reach, initial, since, buffer, processed, retries, page, chat>>

Ends(s, w) ==
    /\ <<s, w>> \in handling
    /\ handling' = handling \ {<<s, w>>}
    /\ inflight' = inflight \ {w}

Unwrapped(s, w) ==
    /\ Ends(s, w)
    /\ processed' = processed \cup {w}
    /\ IF s \in initial
       THEN buffer' = [buffer EXCEPT ![s] = @ \cup {w}] /\ UNCHANGED chat
       ELSE Adds({w}) /\ UNCHANGED buffer
    /\ UNCHANGED <<subs, retries, page>>

UnwrapFails(s, w) ==
    /\ Ends(s, w)
    /\ Transient(w)
    /\ Failed(w)
    /\ UNCHANGED <<subs, buffer, retrying, page, chat>>

\* Of all relays, or of the library for a subscription that was closed.
Eose(s) ==
    /\ s \in initial
    /\ initial' = initial \ {s}
    /\ Adds(buffer[s])
    /\ buffer' = [buffer EXCEPT ![s] = {}]
    /\ UNCHANGED <<sub, reach, given, since, handling, inflight, processed, retries, page>>

\* A relay came back: the library asks it for what is newer than the last wrap it saw.
Reissue ==
    /\ sub > 0 /\ \E w \in given[sub] : since' = [since EXCEPT ![sub] = Stamp[w] + 1]
    /\ UNCHANGED <<sub, reach, initial, given, unwraps, retries, page, chat>>

-----------------------------------------------------------------------------
(* Older messages: loadOlderMessages.                                       *)

\* Relays answer with any wraps before the cursor, which is the oldest message
\* shown; those processed already are skipped.  One page at a time; hasMore,
\* which only ends the loading of pages, is left out.
LoadOlder(P) ==
    /\ page = {}
    /\ \A w \in P : \A m \in shown : Stamp[w] < Stamp[m]
    /\ page' = P \ processed
    /\ UNCHANGED <<subs, unwraps, retries, chat>>

FromPage(w) == w \in page /\ page' = page \ {w}

OlderUnwrapped(w) ==
    /\ FromPage(w)
    /\ processed' = processed \cup {w}
    /\ Adds({w})
    /\ UNCHANGED <<subs, buffer, handling, inflight, retries>>

OlderFails(w) ==
    /\ FromPage(w)
    /\ Transient(w)
    /\ Failed(w)
    /\ UNCHANGED <<subs, buffer, handling, inflight, retrying, chat>>

-----------------------------------------------------------------------------
Next ==
    \/ Start
    \/ \E s \in Sub : Eose(s)
    \/ \E s \in Sub, w \in Wrap : Receive(s, w) \/ Unwrapped(s, w) \/ UnwrapFails(s, w)
    \/ \E w \in Wrap : Fire(w) \/ Retried(w) \/ RetryFails(w)
    \/ \E P \in SUBSET Wrap : LoadOlder(P)
    \/ \E w \in Wrap : OlderUnwrapped(w) \/ OlderFails(w)
    \/ Reissue

Spec == Init /\ [][Next]_vars

\* What has to happen some time: a subscription starts and reports EOSE, the
\* last one is given the wraps it reaches, unwraps and timers come to an end.
\* Each happens finitely often, so it is enough that one of them goes on.
Pending ==
    \/ sub = 0 /\ Start
    \/ \E s \in Sub : Eose(s)
    \/ \E s \in Sub, w \in Wrap : Unwrapped(s, w) \/ UnwrapFails(s, w) \/ (s = sub /\ Receive(s, w))
    \/ \E w \in Wrap : Fire(w) \/ Retried(w) \/ RetryFails(w)

FairSpec == Spec /\ WF_vars(Pending)

-----------------------------------------------------------------------------
(* Properties.                                                              *)

\* A wrap marked processed is never lost: its message is on the screen, its
\* file is attached or waits for its message, or it waits in the buffer of a
\* subscription that is going to be flushed - unless it was given up.  The mark
\* is what keeps every later delivery out, over a restart of the subscription
\* too (F1 at UNWRAP_RETRY_DELAYS_MS).
Taken(w) == \/ w \in shown \cup waiting
            \/ w \in File /\ attached[Parent[w]] # None

Buffered == UNION {buffer[s] : s \in initial}

NothingLost ==
    \A w \in processed : Taken(w) \/ w \in Buffered \cup gaveUp

\* A file that arrived before its message does not go on waiting when the
\* message is there, whichever of subscription, retry and page brought either
\* (pendingFileAttachments).
FilesFound == \A f \in waiting : Parent[f] \notin shown

IInv == TypeOK /\ NothingLost /\ FilesFound

\* Every message ends up shown, and every file with its message, whatever a restart of
\* the subscription cuts off, unless its wrap was retried in vain, or came to be of those
\* that the last subscription does not bring, by its limit or having been issued again for
\* later stamps only: the restart has dropped their retries.  What was marked processed
\* before has no such excuse.
Beyond(w) == w \notin processed /\ w \notin given[sub] /\ (w \notin reach \/ Stamp[w] < since[sub])

Excused(w) == w \in gaveUp \/ (sub > 0 /\ Beyond(w))

Arrives(w) == w \in shown \/ (w \in File /\ attached[Parent[w]] # None)

EveryMessageShown ==
    \A w \in Wrap :
        <>[](Arrives(w) \/ Excused(w) \/ (w \in File /\ Excused(Parent[w])))

=============================================================================
