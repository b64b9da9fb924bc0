----------------------------- MODULE MusicHandler -----------------------------
(***************************************************************************)
(* Music searches on the WhatsApp side (class MusicHandler,                *)
(* musicHandler.js): calls of handleMusicSearch, each waiting in turn for  *)
(* sends to the chat, for the bridge's answer and for the audio download.  *)
(* isSearching is to keep a user to one search at a time.                  *)
(*                                                                         *)
(* The bridge is seen from here only through axios: it finds a song,       *)
(* finds none (or one without audio_url), or the request fails, be it      *)
(* refused, answered with an error status or out of time.                  *)
(***************************************************************************)
EXTENDS Naturals

CONSTANTS
    Users,     \* the chats that talk to the bot
    Calls,     \* slots for calls of handleMusicSearch that run at the same time
    NoUser     \* the user of a free slot

ASSUME MusicAssumption == NoUser \notin Users

VARIABLES
    isSearching,   \* the Set of users with an ongoing search
    calls          \* where each call waits, and for whom

vars == <<isSearching, calls>>

\* The awaits of the search itself, in order; and the messages that end it.
SearchWaits == {"announcing", "searching", "foundReply", "downloading",
                "sendingAudio", "doneReply", "audioErrorReply", "notFoundReply",
                "unavailableReply"}
Waits == SearchWaits \cup {"busyReply", "shortReply", "errorReply"}
Ends  == {"idle", "done", "thrown"}

Call == [at : Waits, user : Users] \cup [at : Ends, user : {NoUser}]

Init ==
    /\ isSearching = {}
    /\ calls = [c \in Calls |-> [at |-> "idle", user |-> NoUser]]

Free(c) == calls[c].at \in Ends

WaitAt(c, at, u) == calls' = [calls EXCEPT ![c] = [at |-> at, user |-> u]]

-----------------------------------------------------------------------------
(* handleMusicSearch up to its first await.                                *)

RefuseSecondSearch(c, u) ==
    /\ Free(c)
    /\ u \in isSearching
    /\ WaitAt(c, "busyReply", u)
    /\ UNCHANGED isSearching

\* query is the text of a message; or, for the /search command, the array of
\* its words, on which query.replace throws at once.
StartSearch(c, u) ==
    /\ Free(c)
    /\ u \notin isSearching
    /\ isSearching' = isSearching \cup {u}
    /\ \E at \in {"announcing", "shortReply", "errorReply"} : WaitAt(c, at, u)

handleMusicSearch(c, u) == RefuseSecondSearch(c, u) \/ StartSearch(c, u)

-----------------------------------------------------------------------------
(* What a call waits for settles.                                          *)

\* Faults for the mutation runs: a finally that leaves the guard, one that is
\* skipped by an exception, and one that keeps the slot's user.
FinallyNothing(c, end) ==
    /\ calls' = [calls EXCEPT ![c] = [at |-> end, user |-> NoUser]]
    /\ UNCHANGED isSearching

FinallyIfDone(c, end) ==
    /\ calls' = [calls EXCEPT ![c] = [at |-> end, user |-> NoUser]]
    /\ isSearching' = IF end = "done" THEN isSearching \ {calls[c].user} ELSE isSearching

FinallyKeepingUser(c, end) ==
    /\ calls' = [calls EXCEPT ![c] = [at |-> end, user |-> calls[c].user]]
    /\ isSearching' = isSearching \ {calls[c].user}

\* The finally clause: whoever ends the call, its user is taken off the Set.
Finally(c, end) ==
    /\ calls' = [calls EXCEPT ![c] = [at |-> end, user |-> NoUser]]
    /\ isSearching' = isSearching \ {calls[c].user}

\* Fault for the mutation runs: the guard is released when the search is found.
GoOnReleasing(c, at) ==
    /\ WaitAt(c, at, calls[c].user)
    /\ isSearching' = IF at = "foundReply" THEN isSearching \ {calls[c].user} ELSE isSearching

GoOn(c, at) == WaitAt(c, at, calls[c].user) /\ UNCHANGED isSearching

\* The try blocks go on to the next await.
Resolved(c) ==
    \/ calls[c].at = "announcing" /\ GoOn(c, "searching")
    \/ calls[c].at = "searching" /\ \E at \in {"foundReply", "notFoundReply"} : GoOn(c, at)
    \/ calls[c].at = "foundReply" /\ GoOn(c, "downloading")
    \/ calls[c].at = "downloading" /\ GoOn(c, "sendingAudio")
    \/ calls[c].at = "sendingAudio" /\ GoOn(c, "doneReply")
    \/ /\ calls[c].at \in {"doneReply", "audioErrorReply", "notFoundReply",
                           "unavailableReply", "busyReply", "shortReply", "errorReply"}
       /\ Finally(c, "done")

\* Each catch answers with its own message: the one around the download, the
\* one around the search, and the outer one, whose own failure escapes.
Rejected(c) ==
    \/ calls[c].at \in {"downloading", "sendingAudio", "doneReply"} /\ GoOn(c, "audioErrorReply")
    \/ calls[c].at \in {"searching", "foundReply", "notFoundReply", "audioErrorReply"}
          /\ GoOn(c, "unavailableReply")
    \/ calls[c].at \in {"announcing", "unavailableReply", "busyReply", "shortReply"}
          /\ GoOn(c, "errorReply")
    \/ calls[c].at = "errorReply" /\ Finally(c, "thrown")

Settles(c) == Resolved(c) \/ Rejected(c)

Next == \E c \in Calls : Settles(c) \/ \E u \in Users : handleMusicSearch(c, u)

Spec == Init /\ [][Next]_vars

-----------------------------------------------------------------------------
(* Properties.                                                             *)

\* The Set holds users, and every call waits for one of them or has ended.
TypeOK ==
    /\ isSearching \subseteq Users
    /\ calls \in [Calls -> Call]

Searching(c, u) == calls[c].user = u /\ calls[c].at \in SearchWaits

\* Nobody is locked out of searching by a call that is no longer there: behind
\* every entry of isSearching runs a call of that user, which takes it off.
GuardHasItsCall ==
    \A u \in isSearching : \E c \in Calls : calls[c].user = u

\* The guard of a running search is lost only to the end of another call of the
\* same user, so a user whose messages never overlap has one search at a time.
GuardLostOnlyToOverlap ==
    [][ \A u \in Users, c \in Calls :
          Searching(c, u) /\ u \in isSearching
          /\ Searching(c, u)' /\ u \notin isSearching'
              => \E d \in Calls \ {c} : calls[d].user = u /\ calls'[d].user = NoUser ]_vars

\* "Prevent multiple simultaneous searches from same user" (musicHandler.js:21).
OneSearchPerUser ==
    \A u \in Users, c, d \in Calls : Searching(c, u) /\ Searching(d, u) => c = d

\* A user who is refused a search can search again some time later, whatever
\* fails in between.
GuardIsReleased == \A u \in Users : u \in isSearching ~> u \notin isSearching

=============================================================================
