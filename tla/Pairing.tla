------------------------------- MODULE Pairing -------------------------------
(***************************************************************************)
(* Pairing codes and the listener they are redeemed on.  Issuing a code    *)
(* opens a listener without client authentication for the life of the code *)
(* (hive/pairing.rs, hive/pairing_window.rs); a window is a listener task  *)
(* and a timeout task, and both run beside the handlers of later codes.    *)
(*                                                                         *)
(* Time is kept as what is left of it.  A member of Codes stands for one   *)
(* code after another: it is taken again once nothing is left of the last. *)
(***************************************************************************)
EXTENDS Naturals

CONSTANTS
    Codes,    \* codes that can exist at once
    NoCode,   \* not a code
    TTL       \* CODE_TTL_SECONDS

ASSUME PairAssumption == NoCode \notin Codes /\ TTL \in Nat \ {0}

VARIABLES
    outstanding,  \* the codes in PairingCodeStore
    left,         \* left[c]: seconds until code c expires
    opening,      \* codes whose handler has not called open_for yet
    window,       \* window[c]: the window opened for code c
    active,       \* active_handle: the code whose window it is, or NoCode
    admitted      \* history: how many joiners were let in with code c

pairVars == <<outstanding, left, opening, window, active, admitted>>

\* The listener starts, is bound or has failed to bind; it is told to stop,
\* and holds its port until it has.  The timeout sleeps for what is left,
\* shuts the listener down and then clears active_handle.
Window == [pc: {"none", "starting", "bound", "failed", "stopping", "closed"},
           left: 0..TTL, timer: {"none", "running", "fired"}]
NoWindow == [pc |-> "none", left |-> 0, timer |-> "none"]

PairTypeOK ==
    /\ outstanding \in SUBSET Codes
    /\ left \in [Codes -> 0..TTL]
    /\ opening \in SUBSET Codes
    /\ window \in [Codes -> Window]
    /\ active \in Codes \cup {NoCode}
    /\ admitted \in [Codes -> Nat]

PairInit ==
    /\ outstanding = {}
    /\ left = [c \in Codes |-> 0]
    /\ opening = {}
    /\ window = [c \in Codes |-> NoWindow]
    /\ active = NoCode
    /\ admitted = [c \in Codes |-> 0]

Valid(c) == c \in outstanding /\ left[c] > 0
Serving(c) == window[c].pc = "bound"
HoldsPort(c) == window[c].pc \in {"bound", "stopping"}
IsSpent(c) == /\ ~Valid(c) /\ c \notin opening
              /\ window[c].timer = "none" /\ window[c].pc \in {"none", "failed", "closed"}

-----------------------------------------------------------------------------

(* hive_issue_pairing_code: expired codes are swept, a code is stored ...  *)
Issue(c) ==
    /\ IsSpent(c)
    /\ outstanding' = {o \in outstanding : left[o] > 0} \cup {c}
    /\ left' = [left EXCEPT ![c] = TTL]
    /\ opening' = opening \cup {c}
    /\ window' = [window EXCEPT ![c] = NoWindow]
    /\ admitted' = [admitted EXCEPT ![c] = 0]
    /\ UNCHANGED active

\* Mutant of OpenWindow: a window lasts less than its code.
OpenShort(c) ==
    /\ c \in opening
    /\ opening' = opening \ {c}
    /\ IF active = NoCode
       THEN /\ active' = c
            /\ window' = [window EXCEPT ![c] =
                             [pc |-> "starting", left |-> TTL - 1, timer |-> "running"]]
       ELSE UNCHANGED <<active, window>>
    /\ UNCHANGED <<outstanding, left, admitted>>

\* ... and open_for spawns a listener and a timeout, unless a window is active.
OpenWindow(c) ==
    /\ c \in opening
    /\ opening' = opening \ {c}
    /\ IF active = NoCode
       THEN /\ active' = c
            /\ window' = [window EXCEPT ![c] =
                             [pc |-> "starting", left |-> TTL, timer |-> "running"]]
       ELSE UNCHANGED <<active, window>>
    /\ UNCHANGED <<outstanding, left, admitted>>

-----------------------------------------------------------------------------
(* The listener task.                                                      *)

\* A port that an earlier listener still holds cannot be bound: logged only.
BindWindow(c) ==
    /\ window[c].pc = "starting"
    /\ window' = [window EXCEPT ![c].pc =
                     IF \E o \in Codes \ {c} : HoldsPort(o) THEN "failed" ELSE "bound"]
    /\ UNCHANGED <<outstanding, left, opening, active, admitted>>

StopWindow(c) ==
    /\ window[c].pc = "stopping"
    /\ window' = [window EXCEPT ![c].pc = "closed"]
    /\ UNCHANGED <<outstanding, left, opening, active, admitted>>

-----------------------------------------------------------------------------
(* The timeout task: it shuts the listener down, then clears the handle.   *)
Shutdown(c) ==
    /\ window[c].timer = "running" /\ window[c].left = 0
    /\ window' = [window EXCEPT ![c].timer = "fired",
                                ![c].pc = IF @ = "bound" THEN "stopping" ELSE "closed"]
    /\ UNCHANGED <<outstanding, left, opening, active, admitted>>

\* Mutant of ClearHandle: the handle of the closed window stays.
ClearNothing(c) ==
    /\ window[c].timer = "fired"
    /\ window' = [window EXCEPT ![c].timer = "none"]
    /\ UNCHANGED <<outstanding, left, opening, active, admitted>>

ClearHandle(c) ==
    /\ window[c].timer = "fired"
    /\ window' = [window EXCEPT ![c].timer = "none"]
    /\ active' = NoCode
    /\ UNCHANGED <<outstanding, left, opening, admitted>>

-----------------------------------------------------------------------------
\* Mutant of Redeem: a code is looked up but stays.
RedeemAgain(c) ==
    /\ \E o \in Codes : Serving(o)
    /\ c \in outstanding
    /\ admitted' = [admitted EXCEPT ![c] = IF left[c] > 0 THEN @ + 1 ELSE @]
    /\ UNCHANGED <<outstanding, left, opening, window, active>>

\* validate_and_consume, for a request that reaches a listener: the code is
\* gone whether or not it was still valid.
Redeem(c) ==
    /\ \E o \in Codes : Serving(o)
    /\ c \in outstanding
    /\ outstanding' = outstanding \ {c}
    /\ admitted' = [admitted EXCEPT ![c] = IF left[c] > 0 THEN @ + 1 ELSE @]
    /\ UNCHANGED <<left, opening, window, active>>

\* A second passes.
Tick ==
    /\ \E c \in Codes : left[c] > 0 \/ window[c].left > 0
    /\ left' = [c \in Codes |-> IF left[c] > 0 THEN left[c] - 1 ELSE 0]
    /\ window' = [c \in Codes |-> IF window[c].left > 0
                                  THEN [window[c] EXCEPT !.left = @ - 1] ELSE window[c]]
    /\ UNCHANGED <<outstanding, opening, active, admitted>>

WindowStep(c) == OpenWindow(c) \/ BindWindow(c) \/ StopWindow(c) \/ Shutdown(c) \/ ClearHandle(c)

PairNext == Tick \/ \E c \in Codes : Issue(c) \/ Redeem(c) \/ WindowStep(c)

\* Handlers, listeners and timeouts go on, and so does time.
PairFairness == WF_pairVars(Tick) /\ \A c \in Codes : WF_pairVars(WindowStep(c))

PairSpec == PairInit /\ [][PairNext]_pairVars

-----------------------------------------------------------------------------
(* Properties.                                                             *)

(* A code lets one joiner in at most, however redemptions, sweeps and the  *)
(* issuing of other codes interleave.                                      *)
SingleUse == \A c \in Codes : admitted[c] <= 1

(* Windows do not stack: however handlers and timeouts interleave, at most *)
(* one window has yet to be shut down, and active_handle is its handle, so *)
(* that no timeout ever clears the handle of another window.               *)
OneWindow == \A c \in Codes : window[c].timer # "none" => active = c

(* The window opened for a code is not shut down while the code is valid.  *)
OpenerIsServed ==
    \A c \in Codes : Valid(c) => window[c].pc \notin {"stopping", "closed"}

(* The unauthenticated port does not stay open: every window gives up both *)
(* the handle and the port, so that a later code can open one.             *)
WindowsClose == /\ active # NoCode ~> active = NoCode
                /\ \A c \in Codes : HoldsPort(c) ~> ~HoldsPort(c)
=============================================================================
