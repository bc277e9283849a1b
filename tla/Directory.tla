------------------------------- MODULE Directory -------------------------------
(***************************************************************************)
(* What the lookup half of libelfr promises: a call on a container answers *)
(* with the first directory entry that has the wanted name or the wanted   *)
(* id, and NULL with ERF_ERR_NOT_FOUND when no entry has it.  Every thread *)
(* has an error code of its own.                                           *)
(***************************************************************************)
EXTENDS Integers

CONSTANTS Threads, Names, Ids

VARIABLES
    count, names, ids,   \* the directory of the open container
    request,             \* what the call a thread is in looks for
    reply,               \* what the last call of a thread returned
    lastError            \* g_last_error, one per thread

NULL == -1
Entries == 0 .. count - 1
NameRequests == [by : {"name"}, key : Names]
IdRequests == [by : {"id"}, key : Ids]
NoRequest == [by |-> "nothing", key |-> NULL]

dirVars == <<count, names, ids, request, reply, lastError>>

DirInit ==
    /\ count \in Nat
    /\ names \in [Entries -> Names]
    /\ ids \in [Entries -> Ids]
    /\ request = [t \in Threads |-> NoRequest]
    /\ reply = [t \in Threads |-> NULL]
    /\ lastError = [t \in Threads |-> "ERF_OK"]

Wanted(i, r) ==
    \/ r.by = "name" /\ names[i] = r.key
    \/ r.by = "id" /\ ids[i] = r.key

IsFirst(i, r) == Wanted(i, r) /\ \A j \in 0 .. i - 1 : ~Wanted(j, r)

Return(t, result, error) ==
    /\ request' = [request EXCEPT ![t] = NoRequest]
    /\ reply' = [reply EXCEPT ![t] = result]
    /\ lastError' = [lastError EXCEPT ![t] = error]
    /\ UNCHANGED <<count, names, ids>>

(* A thread calls; the reply of its previous call is forgotten. *)
Ask(t, r) ==
    /\ request[t] = NoRequest
    /\ request' = [request EXCEPT ![t] = r]
    /\ reply' = [reply EXCEPT ![t] = NULL]
    /\ UNCHANGED <<count, names, ids, lastError>>

AnswerFound(t) ==
    /\ request[t] # NoRequest
    /\ \E i \in Entries :
          IsFirst(i, request[t]) /\ Return(t, i, "ERF_OK")

AnswerNotFound(t) ==
    /\ request[t] # NoRequest
    /\ \A i \in Entries : ~Wanted(i, request[t])
    /\ Return(t, NULL, "ERF_ERR_NOT_FOUND")

(* A NULL argument or an index out of range. *)
Refuse(t) ==
    /\ request[t] = NoRequest
    /\ Return(t, NULL, "ERF_ERR_INVALID_ARGUMENT")

(* erf_resource_at: a success leaves the error code as it was. *)
At(t, i) ==
    /\ request[t] = NoRequest
    /\ Return(t, i, lastError[t])

DirNext ==
    \E t \in Threads :
        \/ \E r \in NameRequests \cup IdRequests : Ask(t, r)
        \/ AnswerFound(t)
        \/ AnswerNotFound(t)
        \/ Refuse(t)
        \/ \E i \in Entries : At(t, i)

DirSpec == DirInit /\ [][DirNext]_dirVars

=============================================================================
