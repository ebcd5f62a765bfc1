------------------------------- MODULE Reload -------------------------------
(***************************************************************************)
(* SIGHUP reload of the identity and the policy file (internal/runtime and *)
(* the reloaders serve registers). A file is known by how often it was     *)
(* edited; some of its contents do not parse.                              *)
(***************************************************************************)
EXTENDS Naturals, Sequences

CONSTANTS MaxEdits,    \* bound: edits of each file
          BadEdits     \* edits that leave a file missing, too large or malformed

ASSUME ReloadAssumption == MaxEdits \in Nat /\ BadEdits \subseteq 1..MaxEdits

Files == {"identity", "policy"}

VARIABLES
    onDisk,     \* file -> the edit it holds
    loaded,     \* file -> the edit in the registry or the policy pointer
    reloaders,  \* the files registered, in order
    hup,        \* is a signal in hupCh (capacity 1)?
    trigger,    \* is a token in the trigger channel (capacity 1)?
    run,        \* Reloader.Run: what runOnce has left, and the value just read
    asked       \* history: file -> the edit on disk when SIGHUP was last sent

reloadVars == <<onDisk, loaded, reloaders, hup, trigger, run, asked>>

Waiting == [pc |-> "wait", left |-> <<>>, got |-> 0]

\* serve registers identity before policy, each only when it is configured.
ReloadInit ==
    /\ onDisk = [f \in Files |-> 0] /\ loaded = onDisk /\ asked = onDisk
    /\ reloaders \in {<<"identity">>, <<"policy">>, <<"identity", "policy">>}
    /\ hup = FALSE /\ trigger = FALSE /\ run = Waiting

-----------------------------------------------------------------------------
EditFile ==
    /\ \E f \in Files : onDisk[f] < MaxEdits /\ onDisk' = [onDisk EXCEPT ![f] = @ + 1]
    /\ UNCHANGED <<loaded, reloaders, hup, trigger, run, asked>>

\* A signal that finds hupCh full is dropped.
SendSIGHUP ==
    /\ asked # onDisk
    /\ hup' = TRUE /\ asked' = onDisk
    /\ UNCHANGED <<onDisk, loaded, reloaders, trigger, run>>

\* Mutant: the trigger channel has no buffer, so a signal during a reload is lost.
ForwardSignalUnbuffered ==
    /\ hup /\ hup' = FALSE
    /\ trigger' = (run.pc = "wait")
    /\ UNCHANGED <<onDisk, loaded, reloaders, run, asked>>

\* The goroutine of SIGHUPTrigger; a token already waiting stands for this one too.
ForwardSignal ==
    /\ hup /\ hup' = FALSE
    /\ trigger' = TRUE
    /\ UNCHANGED <<onDisk, loaded, reloaders, run, asked>>

TakeTrigger ==
    /\ run.pc = "wait" /\ trigger
    /\ trigger' = FALSE
    /\ run' = [Waiting EXCEPT !.pc = "load", !.left = reloaders]
    /\ UNCHANGED <<onDisk, loaded, reloaders, hup, asked>>

\* LoadIdentityFile or policy.LoadFile reads the whole file.
LoadFile ==
    /\ run.pc = "load" /\ run.left # <<>>
    /\ run' = [run EXCEPT !.pc = "swap", !.got = onDisk[Head(run.left)]]
    /\ UNCHANGED <<onDisk, loaded, reloaders, hup, trigger, asked>>

\* Replace or Store; an error keeps the current value and the next reloader runs.
SwapValue ==
    /\ run.pc = "swap"
    /\ loaded' = IF run.got \in BadEdits THEN loaded
                 ELSE [loaded EXCEPT ![Head(run.left)] = run.got]
    /\ run' = IF Len(run.left) = 1 THEN Waiting
              ELSE [Waiting EXCEPT !.pc = "load", !.left = Tail(run.left)]
    /\ UNCHANGED <<onDisk, reloaders, hup, trigger, asked>>

RunReloader == TakeTrigger \/ LoadFile \/ SwapValue

ReloadNext == EditFile \/ SendSIGHUP \/ ForwardSignal \/ RunReloader

-----------------------------------------------------------------------------
(* A signal is never lost however it falls into a reload that is running:  *)
(* what was on disk when SIGHUP was last sent, or something newer, is in   *)
(* force in the end, unless by then the file does not parse.               *)
SignalledIsLoaded ==
    \A f \in Files :
        (hup /\ \E i \in 1..Len(reloaders) : reloaders[i] = f)
            ~> (loaded[f] >= asked[f] \/ onDisk[f] \in BadEdits)
=============================================================================
