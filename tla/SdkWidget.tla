----------------------------- MODULE SdkWidget -------------------------------
(***************************************************************************)
(* The browser SDK (sdk/src/index.ts, sdk/src/widget.ts): one slider, the  *)
(* closure of render() behind it, and everything that may happen between   *)
(* two awaits of runVerification: prefetches that arrive late, timers that *)
(* reset the slider, a theme that renders it again, the host page calling  *)
(* reset() or destroy(), and other runs.                                   *)
(*                                                                         *)
(* A challenge is the number of its GET /api/challenge.  The server is     *)
(* reduced to what Verification.tla says of an answer: a challenge is      *)
(* accepted at most once, and only with a solution of its own.  The        *)
(* biometrics that go with a submission are left out.                      *)
(***************************************************************************)
EXTENDS Integers

CONSTANTS
    Run,         \* the calls of runVerification
    MaxIssued,   \* bound: challenges fetched
    MaxResets,   \* bound: calls of reset() by the host page
    MaxRenders   \* bound: themes that change the slider

ASSUME WidgetAssumption ==
    /\ MaxIssued \in Nat \ {0} /\ MaxResets \in Nat /\ MaxRenders \in Nat

VARIABLES
    status,            \* CaptchaWidget.status
    isDragging,        \* CaptchaWidget.isDragging
    shown,             \* the slider is in the page
    timers,            \* resets of the slider that an error has scheduled
    token,             \* what getToken() returns, 0 for null
    currentChallenge,  \* the closure's challenge, 0 for null
    prefetches,        \* calls of prefetchChallenge under way
    configs,           \* calls of loadRemoteConfig under way
    pc,                \* where each run is
    solved,            \* the challenge whose proof of work it computes
    sent,              \* the challenge it submits with that solution
    post,              \* what has become of its POST /api/verify
    issued,            \* challenges issued so far
    accepted,          \* challenges the server accepted
    resets, renders    \* so far

run == <<pc, solved, sent, post>>
server == <<issued, accepted>>
bounds == <<resets, renders>>
vars == <<status, isDragging, shown, timers, token, currentChallenge,
          prefetches, configs, run, server, bounds>>

Challenge == 1..MaxIssued
Null == 0
InFlight == {"fetching", "solving", "submitting"}

\* render() has called onReady: a configuration and a challenge are on
\* their way.
Init ==
    /\ status = "ready" /\ isDragging = FALSE /\ shown = TRUE /\ timers = 0
    /\ token = Null /\ currentChallenge = Null
    /\ prefetches = 1 /\ configs = 1
    /\ pc = [r \in Run |-> "new"]
    /\ solved = [r \in Run |-> Null] /\ sent = [r \in Run |-> Null]
    /\ post = [r \in Run |-> "none"]
    /\ issued = 0 /\ accepted = {}
    /\ resets = 0 /\ renders = 0

-----------------------------------------------------------------------------
(* The user *)

DragStart ==
    /\ shown /\ status = "ready" /\ ~isDragging
    /\ isDragging' = TRUE
    /\ UNCHANGED <<status, shown, timers, token, currentChallenge, prefetches,
                   configs, run, server, bounds>>

\* Let go before the end: the slider resets itself.
DragShort ==
    /\ isDragging
    /\ isDragging' = FALSE /\ status' = "ready"
    /\ UNCHANGED <<shown, timers, token, currentChallenge, prefetches, configs,
                   run, server, bounds>>

\* Run r begins to compute the proof of work of challenge c.
Solve(r, c) ==
    /\ pc' = [pc EXCEPT ![r] = "solving"]
    /\ solved' = [solved EXCEPT ![r] = c]

\* Dragged to the end: runVerification, up to its first await.  A slider
\* that is not in the page has no width and no end.
DragEnd(r) ==
    /\ isDragging /\ shown /\ pc[r] = "new"
    /\ isDragging' = FALSE /\ status' = "solving"
    /\ IF currentChallenge = Null
         THEN pc' = [pc EXCEPT ![r] = "fetching"] /\ UNCHANGED solved
         ELSE Solve(r, currentChallenge)
    /\ UNCHANGED <<shown, timers, token, currentChallenge, prefetches, configs,
                   sent, post, server, bounds>>

-----------------------------------------------------------------------------
(* runVerification after each await *)

\* A challenge arrives and becomes the closure's.
Arrives ==
    /\ issued < MaxIssued
    /\ issued' = issued + 1
    /\ currentChallenge' = issued + 1

FetchEnds(r) ==
    /\ pc[r] = "fetching"
    /\ Arrives
    /\ Solve(r, issued + 1)
    /\ UNCHANGED <<status, isDragging, shown, timers, token, prefetches, configs,
                   sent, post, accepted, bounds>>

\* The worker reports its iterations.
Progress(r) ==
    /\ pc[r] = "solving"
    /\ status' = "solving"
    /\ UNCHANGED <<isDragging, shown, timers, token, currentChallenge, prefetches,
                   configs, run, server, bounds>>

\* The worker is done: what is submitted is read from the closure again.
Submit(r) ==
    /\ pc[r] = "solving"
    /\ status' = "verifying"
    /\ pc' = [pc EXCEPT ![r] = "submitting"]
    /\ sent' = [sent EXCEPT ![r] = currentChallenge]
    /\ post' = [post EXCEPT ![r] = "sent"]
    /\ UNCHANGED <<isDragging, shown, timers, token, currentChallenge, prefetches,
                   configs, solved, server, bounds>>

Succeed_CurrentId(r) ==
    /\ pc[r] = "submitting" /\ post[r] = "accepted"
    /\ pc' = [pc EXCEPT ![r] = "done"]
    /\ token' = currentChallenge /\ status' = "success"
    /\ UNCHANGED <<isDragging, shown, timers, currentChallenge, prefetches, configs,
                   solved, sent, post, server, bounds>>

\* The answer to a successful verification always carries a token, the ID of
\* the challenge submitted (handler.go:423-427), so the page never takes the
\* other side of "result.token || currentChallenge.id".
Succeed(r) ==
    /\ pc[r] = "submitting" /\ post[r] = "accepted"
    /\ pc' = [pc EXCEPT ![r] = "done"]
    /\ token' = sent[r] /\ status' = "success"
    /\ UNCHANGED <<isDragging, shown, timers, currentChallenge, prefetches, configs,
                   solved, sent, post, server, bounds>>

Refuse_NoTimer(r) ==
    /\ pc[r] \in InFlight
    /\ pc' = [pc EXCEPT ![r] = "done"]
    /\ status' = "error"
    /\ currentChallenge' = Null /\ prefetches' = prefetches + 1
    /\ UNCHANGED <<isDragging, shown, timers, token, configs, solved, sent, post,
                   server, bounds>>

\* The answer is a refusal, or a fetch, the worker or the submission failed:
\* the error is shown for two seconds and a new challenge is prefetched.
Refuse(r) ==
    /\ pc[r] \in InFlight
    /\ pc' = [pc EXCEPT ![r] = "done"]
    /\ status' = "error" /\ timers' = timers + 1
    /\ currentChallenge' = Null /\ prefetches' = prefetches + 1
    /\ UNCHANGED <<isDragging, shown, token, configs, solved, sent, post,
                   server, bounds>>

-----------------------------------------------------------------------------
(* The server *)

\* The verify handler: it may refuse any submission, and the client may have
\* given up waiting for its answer.
Serve(r) ==
    /\ post[r] = "sent"
    /\ \/ /\ sent[r] # Null /\ sent[r] = solved[r] /\ sent[r] \notin accepted
          /\ accepted' = accepted \cup {sent[r]}
          /\ post' = [post EXCEPT ![r] = "accepted"]
       \/ post' = [post EXCEPT ![r] = "refused"] /\ UNCHANGED accepted
    /\ UNCHANGED <<status, isDragging, shown, timers, token, currentChallenge,
                   prefetches, configs, pc, solved, sent, issued, bounds>>

-----------------------------------------------------------------------------
(* Timers, late answers and the host page *)

\* prefetchChallenge ends; a failure is only logged.
PrefetchEnds ==
    /\ prefetches > 0
    /\ prefetches' = prefetches - 1
    /\ Arrives \/ UNCHANGED <<issued, currentChallenge>>
    /\ UNCHANGED <<status, isDragging, shown, timers, token, configs, run,
                   accepted, bounds>>

\* loadRemoteConfig ends: with a theme that differs the slider is rendered
\* anew, even into a page that has destroyed it, and onReady is called again.
ConfigEnds ==
    /\ configs > 0
    /\ \/ /\ renders < MaxRenders
          /\ renders' = renders + 1
          /\ status' = "ready" /\ shown' = TRUE
          /\ prefetches' = prefetches + 1
          /\ UNCHANGED configs
       \/ /\ configs' = configs - 1
          /\ UNCHANGED <<status, shown, prefetches, renders>>
    /\ UNCHANGED <<isDragging, timers, token, currentChallenge, run, server, resets>>

\* The two seconds of some error are over.
Timer ==
    /\ timers > 0
    /\ timers' = timers - 1 /\ status' = "ready"
    /\ UNCHANGED <<isDragging, shown, token, currentChallenge, prefetches, configs,
                   run, server, bounds>>

Reset_KeepsStatus ==
    /\ resets < MaxResets
    /\ resets' = resets + 1
    /\ token' = Null /\ currentChallenge' = Null
    /\ prefetches' = prefetches + 1
    /\ UNCHANGED <<status, isDragging, shown, timers, configs, run, server, renders>>

Reset_Idle ==
    /\ resets < MaxResets
    /\ resets' = resets + 1
    /\ token' = Null /\ currentChallenge' = Null /\ status' = "idle"
    /\ prefetches' = prefetches + 1
    /\ UNCHANGED <<isDragging, shown, timers, configs, run, server, renders>>

\* reset() by the host page; no run and no timer is stopped.
Reset ==
    /\ resets < MaxResets
    /\ resets' = resets + 1
    /\ token' = Null /\ currentChallenge' = Null /\ status' = "ready"
    /\ prefetches' = prefetches + 1
    /\ UNCHANGED <<isDragging, shown, timers, configs, run, server, renders>>

\* destroy() empties the container and leaves everything else running.
Destroy ==
    /\ shown
    /\ shown' = FALSE
    /\ UNCHANGED <<status, isDragging, timers, token, currentChallenge, prefetches,
                   configs, run, server, bounds>>

RunStep(r) == FetchEnds(r) \/ Submit(r) \/ Succeed(r) \/ Refuse(r)

Next ==
    \/ DragStart \/ DragShort
    \/ \E r \in Run: DragEnd(r) \/ RunStep(r) \/ Progress(r) \/ Serve(r)
    \/ PrefetchEnds \/ ConfigEnds \/ Timer \/ Reset \/ Destroy

Spec == Init /\ [][Next]_vars

\* Fetches end, the search for a solution is bounded (pow-worker.ts:75) and
\* timers fire.  Nothing makes the user drag or the server accept.
Fairness == WF_vars(Timer) /\ \A r \in Run: WF_vars(RunStep(r))

FairSpec == Spec /\ Fairness

-----------------------------------------------------------------------------
(* What is claimed *)

FlagsOK == isDragging \in BOOLEAN /\ shown \in BOOLEAN

TypeOK ==
    /\ FlagsOK
    /\ status \in {"ready", "solving", "verifying", "success", "error"}
    /\ timers \in Nat /\ prefetches \in Nat /\ configs \in Nat
    /\ token \in Challenge \cup {Null} /\ currentChallenge \in Challenge \cup {Null}
    /\ pc \in [Run -> InFlight \cup {"new", "done"}]
    /\ solved \in [Run -> Challenge \cup {Null}]
    /\ sent \in [Run -> Challenge \cup {Null}]
    /\ post \in [Run -> {"none", "sent", "accepted", "refused"}]
    /\ issued \in 0..MaxIssued /\ accepted \subseteq Challenge
    /\ resets \in Nat /\ renders \in Nat

\* The token the page gets is a challenge that the server accepted, however
\* runs, prefetches and resets interleave (index.ts:117-128, README.md:200).
TokenIsEarned == token # Null => token \in accepted

\* What the slider shows is the truth: somebody works while it says so, an
\* error is about to go away, a success has its token (index.ts:93-145,
\* widget.ts:86-98).
StatusIsHonest ==
    /\ status \in {"solving", "verifying"} => \E r \in Run: pc[r] \in InFlight
    /\ status = "error" => timers > 0
    /\ status = "success" => token # Null

\* The slider is never stuck: it succeeds or can be dragged again, also when
\* stale timers and other runs write its status (index.ts:93-146,
\* widget.ts:94-97).
SliderComesBack ==
    status \in {"solving", "verifying", "error"} ~> status \in {"ready", "success"}

-----------------------------------------------------------------------------
(* What the documents say *)

\* README.md:21-26: the solution submitted belongs to the challenge submitted
\* with it.
SolvedIsSubmitted == \A r \in Run: post[r] # "none" => sent[r] = solved[r]

=============================================================================
