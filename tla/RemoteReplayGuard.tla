--------------------------- MODULE RemoteReplayGuard ---------------------------
(***************************************************************************)
(* The iOS client's replay guard: a pure value type that RemoteHandshake   *)
(* and SealedFrames embed.  A guard g has the fields                       *)
(*   maxSeq    the high-water mark of accepted sealed frames               *)
(*   failures  consecutive decrypt failures                                *)
(*   nonce     the Mac nonce of the last HELLO (None: none since reset)    *)
(*   resets    epoch resets still inside the sliding window                *)
(* Every method returns the guard it leaves and the verdict it orders.     *)
(***************************************************************************)
EXTENDS Naturals

CONSTANTS
  None,                     \* an absent optional
  DecryptFailureThreshold,  \* failures in a row that order a reset (8)
  MaxEpochResets,           \* resets allowed inside the window (3)
  WindowSlides              \* may recorded resets leave the 60 s window?

ASSUME GuardAssumption ==
  /\ DecryptFailureThreshold \in Nat \ {0}
  /\ MaxEpochResets \in Nat \ {0}
  /\ WindowSlides \in BOOLEAN

(* reset() and init() *)
NewGuard == [maxSeq |-> 0, failures |-> 0, nonce |-> None, resets |-> 0]

ResetCounters(g) == [g EXCEPT !.maxSeq = 0, !.failures = 0]

(* The window is wall-clock time: `kept` of the recorded resets are still  *)
(* inside it.                                                              *)
InWindow(g) == IF WindowSlides THEN 0..g.resets ELSE {g.resets}

AdmitEpochReset(g, kept) ==
  IF kept < MaxEpochResets
    THEN [guard |-> [g EXCEPT !.resets = kept + 1], verdict |-> "resetSession"]
    ELSE [guard |-> [g EXCEPT !.resets = kept], verdict |-> "escalate"]

EvaluateEncryptedFrame(g, seq) ==
  IF seq > g.maxSeq
    THEN [guard |-> [g EXCEPT !.maxSeq = seq], verdict |-> "accept"]
    ELSE [guard |-> g, verdict |-> "drop"]

EvaluateHello(g, macNonce, hasCryptoSession, kept) ==
  LET r == IF hasCryptoSession /\ g.nonce # None /\ g.nonce # macNonce
             THEN AdmitEpochReset(ResetCounters(g), kept)
             ELSE [guard |-> g, verdict |-> "accept"]
  IN [r EXCEPT !.guard.nonce = macNonce]

(* Faulty variant: failures are counted and never order a reset.           *)
NoteDecryptFailure_NeverResets(g, kept) ==
  [guard |-> [g EXCEPT !.failures = @ + 1], verdict |-> "drop"]

NoteDecryptFailure(g, kept) ==
  IF g.failures + 1 >= DecryptFailureThreshold
    THEN AdmitEpochReset(ResetCounters(g), kept)
    ELSE [guard |-> [g EXCEPT !.failures = @ + 1], verdict |-> "drop"]

NoteDecryptSuccess(g) == [g EXCEPT !.failures = 0, !.resets = 0]

================================================================================
