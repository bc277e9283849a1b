----------------------------- MODULE DefaultContainer -----------------------------
(***************************************************************************)
(* The default-container API of libelfr: erf_find and its siblings open    *)
(* the container linked under the default symbols on first use.  Threads   *)
(* share two plain globals, g_default_attempted and g_default_container,   *)
(* without a lock; elfr.h therefore asks the program not to call from      *)
(* several threads "before the first successful call returns".             *)
(*                                                                         *)
(* What the lookup itself does once it has a container is that of Lookup:  *)
(* here it finds the name, or does not, or is given none.  Between its     *)
(* calls on the default container a thread may use handles of its own; all *)
(* that these share with them is the thread's g_last_error.                *)
(* ERF_ERR_BAD_MAGIC stands for any reason erf_open_memory gives.          *)
(***************************************************************************)
EXTENDS Integers

CONSTANT Threads

VARIABLES
    linked,       \* what the symbols name: "absent", a "sound" container or
                  \* one that erf_open_memory refuses, "refused"
    attempted,    \* g_default_attempted
    default,      \* g_default_container: 0 for NULL, else the handle
    opened,       \* how many containers erf_open_memory has handed out
    succeeded,    \* some default-container call has returned successfully
    refused,      \* some has come back for want of a container
    at,           \* where each thread is in its call
    handle,       \* the container get_default_container returned to it
    reply,        \* what its last call returned, if that was on the default
                  \* container: "entry" or "NULL", else "none"
    lastError     \* g_last_error, one per thread

globals == <<attempted, default, opened>>
history == <<succeeded, refused>>
defaultVars == <<linked, globals, history, at, handle, reply, lastError>>

NULL == 0

DefaultInit ==
    /\ linked \in {"absent", "refused", "sound"}
    /\ attempted = FALSE
    /\ default = NULL
    /\ opened = 0
    /\ succeeded = FALSE
    /\ refused = FALSE
    /\ at = [t \in Threads |-> "idle"]
    /\ handle = [t \in Threads |-> NULL]
    /\ reply = [t \in Threads |-> "none"]
    /\ lastError = [t \in Threads |-> "ERF_OK"]

Goto(t, place) == at' = [at EXCEPT ![t] = place]
SetError(t, e) == lastError' = [lastError EXCEPT ![t] = e]

(* What elfr.h asks of the program: one thread at a time, until a call     *)
(* has succeeded.                                                          *)
MayCall(t) ==
    ~succeeded => \A u \in Threads : at[u] = "idle"

Call(t) ==
    /\ at[t] = "idle"
    /\ MayCall(t)
    /\ Goto(t, "check")
    /\ reply' = [reply EXCEPT ![t] = "none"]
    /\ UNCHANGED <<linked, globals, history, handle, lastError>>

(* The global says that an attempt was made: what it left is returned.  *)
AlreadyAttempted(t) ==
    /\ at[t] = "check"
    /\ attempted
    /\ Goto(t, "return")
    /\ UNCHANGED <<linked, globals, history, handle, reply, lastError>>

(* A broken FirstAttempt that does not record itself. *)
FirstAttemptUnrecorded(t) ==
    /\ at[t] = "check"
    /\ ~attempted
    /\ Goto(t, "open")
    /\ UNCHANGED <<linked, globals, history, handle, reply, lastError>>

FirstAttempt(t) ==
    /\ at[t] = "check"
    /\ ~attempted
    /\ attempted' = TRUE
    /\ Goto(t, "open")
    /\ UNCHANGED <<linked, default, opened, history, handle, reply, lastError>>

(* A broken NothingLinked that reports nothing. *)
NothingLinkedSilent(t) ==
    /\ at[t] = "open"
    /\ linked = "absent"
    /\ handle' = [handle EXCEPT ![t] = NULL]
    /\ Goto(t, "use")
    /\ UNCHANGED <<linked, globals, history, reply, lastError>>

(* The weak symbols are NULL.  *)
NothingLinked(t) ==
    /\ at[t] = "open"
    /\ linked = "absent"
    /\ SetError(t, "ERF_ERR_NO_DEFAULT_CONTAINER")
    /\ handle' = [handle EXCEPT ![t] = NULL]
    /\ Goto(t, "use")
    /\ UNCHANGED <<linked, globals, history, reply>>

(* A broken OpenFails that keeps the handle erf_open_memory had allocated. *)
OpenFailsDangling(t) ==
    /\ at[t] = "open"
    /\ linked = "refused"
    /\ SetError(t, "ERF_ERR_BAD_MAGIC")
    /\ default' = opened + 1
    /\ Goto(t, "return")
    /\ UNCHANGED <<linked, attempted, opened, history, handle, reply>>

OpenFails(t) ==
    /\ at[t] = "open"
    /\ linked = "refused"
    /\ SetError(t, "ERF_ERR_BAD_MAGIC")
    /\ default' = NULL
    /\ Goto(t, "return")
    /\ UNCHANGED <<linked, attempted, opened, history, handle, reply>>

(* A broken OpenSucceeds that loses the handle. *)
OpenSucceedsUnstored(t) ==
    /\ at[t] = "open"
    /\ linked = "sound"
    /\ SetError(t, "ERF_OK")
    /\ opened' = opened + 1
    /\ Goto(t, "return")
    /\ UNCHANGED <<linked, attempted, default, history, handle, reply>>

OpenSucceeds(t) ==
    /\ at[t] = "open"
    /\ linked = "sound"
    /\ SetError(t, "ERF_OK")
    /\ opened' = opened + 1
    /\ default' = opened'
    /\ Goto(t, "return")
    /\ UNCHANGED <<linked, attempted, history, handle, reply>>

(* get_default_container returns the global as it is now.  *)
ReturnDefault(t) ==
    /\ at[t] = "return"
    /\ handle' = [handle EXCEPT ![t] = default]
    /\ Goto(t, "use")
    /\ UNCHANGED <<linked, globals, history, reply, lastError>>

(* No container: the call returns NULL and leaves the last error alone.  *)
NoContainer(t) ==
    /\ at[t] = "use"
    /\ handle[t] = NULL
    /\ reply' = [reply EXCEPT ![t] = "NULL"]
    /\ refused' = TRUE
    /\ Goto(t, "idle")
    /\ UNCHANGED <<linked, globals, succeeded, handle, lastError>>

Found(t) ==
    /\ at[t] = "use"
    /\ handle[t] # NULL
    /\ reply' = [reply EXCEPT ![t] = "entry"]
    /\ SetError(t, "ERF_OK")
    /\ succeeded' = TRUE
    /\ Goto(t, "idle")
    /\ UNCHANGED <<linked, globals, refused, handle>>

NotFound(t) ==
    /\ at[t] = "use"
    /\ handle[t] # NULL
    /\ reply' = [reply EXCEPT ![t] = "NULL"]
    /\ SetError(t, "ERF_ERR_NOT_FOUND")
    /\ Goto(t, "idle")
    /\ UNCHANGED <<linked, globals, history, handle>>

(* erf_find(NULL): the container is looked for first, then the name refused. *)
NoName(t) ==
    /\ at[t] = "use"
    /\ handle[t] # NULL
    /\ reply' = [reply EXCEPT ![t] = "NULL"]
    /\ SetError(t, "ERF_ERR_INVALID_ARGUMENT")
    /\ Goto(t, "idle")
    /\ UNCHANGED <<linked, globals, history, handle>>

Step(t) ==
    \/ AlreadyAttempted(t) \/ FirstAttempt(t)
    \/ NothingLinked(t) \/ OpenFails(t) \/ OpenSucceeds(t)
    \/ ReturnDefault(t) \/ NoContainer(t)
    \/ Found(t) \/ NotFound(t) \/ NoName(t)

(* What the explicit-handle calls may leave in g_last_error.  *)
HandleErrors == {"ERF_OK", "ERF_ERR_NOT_FOUND", "ERF_ERR_INVALID_ARGUMENT",
                 "ERF_ERR_BAD_MAGIC"}

(* A call on a handle of the thread's own: erf_open_memory, erf_find_in,     *)
(* erf_find_id_in, erf_resource_at.  elfr.h lets it be made at any time.     *)
HandleCall(t) ==
    /\ at[t] = "idle"
    /\ \E e \in HandleErrors : SetError(t, e)
    /\ reply' = [reply EXCEPT ![t] = "none"]
    /\ UNCHANGED <<linked, globals, history, at, handle>>

DefaultNext == \E t \in Threads : Call(t) \/ Step(t) \/ HandleCall(t)

DefaultSpec == DefaultInit /\ [][DefaultNext]_defaultVars

-----------------------------------------------------------------------------
Refusal == [absent  |-> "ERF_ERR_NO_DEFAULT_CONTAINER",
            refused |-> "ERF_ERR_BAD_MAGIC"]
Errors == HandleErrors \cup {"ERF_ERR_NO_DEFAULT_CONTAINER"}

(* Types of the state: the global and the threads' handles name a container *)
(* that was opened, or none.                                                *)
DefaultTypeOK ==
    /\ linked \in {"absent", "refused", "sound"}
    /\ attempted \in BOOLEAN
    /\ opened \in Nat
    /\ default \in 0 .. opened
    /\ succeeded \in BOOLEAN
    /\ refused \in BOOLEAN
    /\ at \in [Threads -> {"idle", "check", "open", "return", "use"}]
    /\ handle \in [Threads -> 0 .. opened]
    /\ reply \in [Threads -> {"none", "entry", "NULL"}]
    /\ lastError \in [Threads -> Errors]

(* Under the discipline of elfr.h the unlocked globals are enough: the      *)
(* container is opened at most once in the life of the program, and every   *)
(* call that uses a container uses that one, so that entries returned to    *)
(* different threads point into one table.                                  *)
OneContainer ==
    /\ opened <= 1
    /\ \A t \in Threads : at[t] = "use" => handle[t] = default

(* When the linked container is sound no call comes back empty-handed for   *)
(* want of it: either the name is not in it, or none was given, and the     *)
(* thread's last error says so, whichever thread asks and however its steps *)
(* fall between those of the thread that opens it.                          *)
SoundAnswers ==
    linked = "sound" =>
        \A t \in Threads : reply[t] = "NULL" =>
              lastError[t] \in {"ERF_ERR_NOT_FOUND", "ERF_ERR_INVALID_ARGUMENT"}

(* If there is no usable container, the first call that comes back without  *)
(* one has the reason in its thread's last error as it returns, whatever    *)
(* the thread and the others have done with handles of their own.  It is    *)
(* the only call sure of that: later ones find what their thread did last,  *)
(* and so does the first thread once it has called something else.          *)
FirstRefusalExplained ==
    [][\A t \in Threads :
          linked # "sound" /\ ~refused /\ at[t] = "use" /\ at'[t] = "idle"
              => lastError'[t] = Refusal[linked]]_defaultVars

(* elfr.h, of the default-container calls: if nothing is linked under the   *)
(* default symbols, "these return NULL / ERF_ERR_NO_DEFAULT_CONTAINER".     *)
(* g_default_attempted sends every call but the first past the place that   *)
(* sets the error, which is the calling thread's own.                       *)
AbsenceExplained ==
    linked = "absent" =>
        \A t \in Threads : reply[t] = "NULL" =>
                              lastError[t] = "ERF_ERR_NO_DEFAULT_CONTAINER"

=============================================================================
