------------------------ MODULE DefaultContainer_proofs ------------------------
(* The default container is opened once and shared, for any set of threads.  *)
(* The discipline of elfr.h enters through Alone: until a call has succeeded *)
(* at most one thread is inside a call, so that the test and the assignment  *)
(* of g_default_attempted cannot be separated by another thread's.           *)
EXTENDS DefaultContainer, TLAPS

Inside(t) == at[t] # "idle"

Alone == ~succeeded =>
            \A t, u \in Threads : Inside(t) /\ Inside(u) => t = u

(* Where a thread is says what has become of the globals.                    *)
Settled == attempted /\ (linked = "sound" => opened = 1)

Progressed ==
    /\ succeeded => Settled
    /\ \A t \in Threads :
          /\ at[t] = "open" => attempted /\ ~succeeded /\ opened = 0
          /\ at[t] \in {"return", "use"} => Settled
          /\ at[t] = "use" => handle[t] = default
          /\ Inside(t) => reply[t] = "none"
    /\ attempted /\ (\A t \in Threads : at[t] # "open") => Settled

Stored ==
    /\ default = opened
    /\ opened \in {0, 1}
    /\ opened = 1 => attempted

(* The inductive invariant.                                                  *)
DefaultInv == DefaultTypeOK /\ Alone /\ Progressed /\ Stored /\ SoundAnswers

LEMMA InitDefault == DefaultInit => DefaultInv
<1> SUFFICES ASSUME DefaultInit PROVE DefaultInv
  OBVIOUS
<1>1. DefaultTypeOK
  <2>1. default \in 0 .. opened /\ handle \in [Threads -> 0 .. opened]
    BY DEF DefaultInit, NULL
  <2> QED
    BY <2>1 DEF DefaultInit, DefaultTypeOK, Errors, HandleErrors
<1>2. Alone /\ Progressed /\ Stored /\ SoundAnswers
  BY DEF DefaultInit, Alone, Inside, Progressed, Settled, Stored, SoundAnswers,
         NULL
<1> QED
  BY <1>1, <1>2 DEF DefaultInv

LEMMA StepDefault == DefaultInv /\ [DefaultNext]_defaultVars => DefaultInv'
<1> SUFFICES ASSUME DefaultInv, [DefaultNext]_defaultVars
             PROVE  DefaultInv'
  OBVIOUS
<1> USE DEF DefaultInv
<1>1. ASSUME NEW t \in Threads, Call(t)
      PROVE  DefaultInv'
  <2> USE <1>1 DEF Call, MayCall, Goto, globals, history
  <2>1. DefaultTypeOK'
    BY DEF DefaultTypeOK
  <2>2. Alone'
    BY DEF Alone, Inside, DefaultTypeOK
  <2>3. Progressed' /\ Stored'
    BY DEF Progressed, Inside, Stored, Settled, DefaultTypeOK
  <2>4. SoundAnswers'
    BY DEF SoundAnswers, DefaultTypeOK
  <2> QED
    BY <2>1, <2>2, <2>3, <2>4
<1>2. ASSUME NEW t \in Threads, AlreadyAttempted(t)
      PROVE  DefaultInv'
  <2> USE <1>2 DEF AlreadyAttempted, Goto, globals, history
  <2>1. DefaultTypeOK'
    BY DEF DefaultTypeOK
  <2>2. Alone' /\ SoundAnswers'
    BY DEF Alone, Inside, SoundAnswers, DefaultTypeOK
  <2>3. \A u \in Threads : at[u] # "open"
    BY DEF Alone, Inside, Progressed, DefaultTypeOK
  <2>4. Progressed' /\ Stored'
    BY <2>3 DEF Progressed, Inside, Stored, Settled, DefaultTypeOK
  <2> QED
    BY <2>1, <2>2, <2>4
<1>3. ASSUME NEW t \in Threads, FirstAttempt(t)
      PROVE  DefaultInv'
  <2> USE <1>3 DEF FirstAttempt, Goto, globals, history
  <2>1. DefaultTypeOK'
    BY DEF DefaultTypeOK
  <2>2. ~succeeded /\ opened = 0
    BY DEF Progressed, Settled, Stored
  <2>3. Alone' /\ SoundAnswers'
    BY DEF Alone, Inside, SoundAnswers, DefaultTypeOK
  <2>4. \A u \in Threads : u # t => at[u] = "idle"
    BY <2>2 DEF Alone, Inside
  <2>5. Progressed' /\ Stored'
    BY <2>2, <2>4 DEF Progressed, Inside, Stored, Settled, DefaultTypeOK
  <2> QED
    BY <2>1, <2>3, <2>5
<1>4. ASSUME NEW t \in Threads, NothingLinked(t) \/ OpenFails(t) \/ OpenSucceeds(t)
      PROVE  DefaultInv'
  <2> USE <1>4 DEF NothingLinked, OpenFails, OpenSucceeds, Goto, SetError, globals, history,
                   NULL
  <2>1. attempted /\ ~succeeded /\ opened = 0 /\ default = 0
    BY DEF Progressed, Stored
  <2>2. \A u \in Threads : u # t => at[u] = "idle"
    BY <2>1 DEF Alone, Inside
  <2>3. DefaultTypeOK'
    <3>1. /\ opened' \in Nat /\ default' \in 0 .. opened'
          /\ 0 .. opened \subseteq 0 .. opened'
      <4>1. CASE OpenSucceeds(t)
        BY <2>1, <4>1
      <4>2. CASE NothingLinked(t)
        BY <2>1, <4>2
      <4>3. CASE OpenFails(t)
        BY <2>1, <4>3
      <4> QED
        BY <4>1, <4>2, <4>3
    <3>2. handle' \in [Threads -> 0 .. opened']
      <4>1. handle' \in [Threads -> 0 .. opened]
        BY DEF DefaultTypeOK
      <4> QED
        BY <3>1, <4>1
    <3>3. /\ lastError' \in [Threads -> Errors]
          /\ at' \in [Threads -> {"idle", "check", "open", "return", "use"}]
      BY DEF DefaultTypeOK, Errors, HandleErrors
    <3> QED
      BY <3>1, <3>2, <3>3 DEF DefaultTypeOK
  <2>4. Alone'
    BY <2>2 DEF Alone, Inside, DefaultTypeOK
  <2>5. SoundAnswers'
    <3>1. reply[t] = "none" /\ reply' = reply
      BY DEF Progressed, Inside
    <3> QED
      BY <3>1 DEF SoundAnswers, DefaultTypeOK
  <2>6. Progressed' /\ Stored'
    <3>1. CASE NothingLinked(t)
      BY <2>1, <2>2, <3>1 DEF Progressed, Inside, Stored, Settled, DefaultTypeOK
    <3>2. CASE OpenFails(t)
      BY <2>1, <2>2, <3>2 DEF Progressed, Inside, Stored, Settled, DefaultTypeOK
    <3>3. CASE OpenSucceeds(t)
      BY <2>1, <2>2, <3>3 DEF Progressed, Inside, Stored, Settled, DefaultTypeOK
    <3> QED
      BY <3>1, <3>2, <3>3
  <2> QED
    BY <2>3, <2>4, <2>5, <2>6
<1>5. ASSUME NEW t \in Threads, ReturnDefault(t)
      PROVE  DefaultInv'
  <2> USE <1>5 DEF ReturnDefault, Goto, globals, history
  <2>1. DefaultTypeOK'
    BY DEF DefaultTypeOK
  <2>2. Alone' /\ SoundAnswers'
    BY DEF Alone, Inside, SoundAnswers, DefaultTypeOK
  <2>3. Progressed' /\ Stored'
    BY DEF Progressed, Inside, Stored, Settled, DefaultTypeOK
  <2> QED
    BY <2>1, <2>2, <2>3
<1>6. ASSUME NEW t \in Threads,
             NoContainer(t) \/ Found(t) \/ NotFound(t) \/ NoName(t)
      PROVE  DefaultInv'
  <2> USE <1>6 DEF NoContainer, Found, NotFound, NoName, Goto, SetError, globals,
                   history, NULL
  <2>1. Settled /\ handle[t] = default
    BY DEF Progressed
  <2>2. DefaultTypeOK'
    BY DEF DefaultTypeOK, Errors, HandleErrors
  <2>3. at' = [at EXCEPT ![t] = "idle"]
    OBVIOUS
  <2>4. Alone'
    BY <2>3 DEF Alone, Inside, DefaultTypeOK
  <2>5. SoundAnswers'
    <3>1. CASE NoContainer(t)
      BY <2>1, <3>1 DEF SoundAnswers, Stored, Settled
    <3>2. CASE Found(t)
      BY <3>2 DEF SoundAnswers, DefaultTypeOK
    <3>3. CASE NotFound(t) \/ NoName(t)
      BY <3>3 DEF SoundAnswers, DefaultTypeOK
    <3> QED
      BY <3>1, <3>2, <3>3
  <2>6. \A u \in Threads : succeeded' => at'[u] # "open"
    BY <2>1, <2>3 DEF Alone, Inside, Progressed, Stored, DefaultTypeOK
  <2>7. Settled' /\ Stored'
    BY <2>1 DEF Settled, Stored
  <2>8. Progressed'
    BY <2>3, <2>6, <2>7 DEF Progressed, Inside, DefaultTypeOK
  <2> QED
    BY <2>2, <2>4, <2>5, <2>7, <2>8
<1>7. ASSUME NEW t \in Threads, HandleCall(t)
      PROVE  DefaultInv'
  <2> USE <1>7 DEF HandleCall, SetError, globals, history
  <2>1. DefaultTypeOK'
    BY DEF DefaultTypeOK, Errors, HandleErrors
  <2>2. Alone' /\ Stored' /\ SoundAnswers'
    BY DEF Alone, Inside, Stored, SoundAnswers, DefaultTypeOK
  <2>3. Progressed'
    BY DEF Progressed, Inside, Settled, DefaultTypeOK
  <2> QED
    BY <2>1, <2>2, <2>3
<1>8. CASE UNCHANGED defaultVars
  BY <1>8 DEF defaultVars, globals, history, DefaultTypeOK, Alone, Inside, Progressed,
              Settled, Stored, SoundAnswers
<1> QED
  BY <1>1, <1>2, <1>3, <1>4, <1>5, <1>6, <1>7, <1>8 DEF DefaultNext, Step

LEMMA DefaultInvariant == DefaultSpec => []DefaultInv
<1> QED
  BY InitDefault, StepDefault, PTL DEF DefaultSpec

(* The state keeps its types, and no thread ever holds a handle that was not *)
(* opened.                                                                   *)
THEOREM DefaultTypes == DefaultSpec => []DefaultTypeOK
<1>1. DefaultInv => DefaultTypeOK
  BY DEF DefaultInv
<1> QED
  BY <1>1, DefaultInvariant, PTL

(* However many threads use the default container, within the discipline of  *)
(* elfr.h it is opened at most once and all of them use the same one.        *)
THEOREM OpenedOnce == DefaultSpec => []OneContainer
<1>1. DefaultInv => OneContainer
  BY DEF DefaultInv, OneContainer, Stored, Progressed
<1> QED
  BY <1>1, DefaultInvariant, PTL

(* A sound container never makes a call return NULL for want of a container. *)
THEOREM SoundlyAnswered == DefaultSpec => []SoundAnswers
<1>1. DefaultInv => SoundAnswers
  BY DEF DefaultInv
<1> QED
  BY <1>1, DefaultInvariant, PTL

-----------------------------------------------------------------------------
(* Until a call has come back for want of a container, the thread that made  *)
(* the attempt is still in its call, and has the reason from the moment the  *)
(* attempt is over: nobody else writes its last error.                       *)
Explained ==
    linked # "sound" =>
        /\ opened = 0
        /\ ~succeeded
        /\ \A t \in Threads : handle[t] = NULL
        /\ ~refused =>
              /\ \A t \in Threads :
                    at[t] \in {"return", "use"} => lastError[t] = Refusal[linked]
              /\ attempted => \E t \in Threads : at[t] \in {"open", "return", "use"}

LEMMA InitExplained == DefaultInit => Explained
BY DEF DefaultInit, Explained

LEMMA SameLinked ==
    ASSUME [DefaultNext]_defaultVars
    PROVE  linked' = linked
BY DEF DefaultNext, Step, Call, AlreadyAttempted, FirstAttempt, NothingLinked,
       OpenFails, OpenSucceeds, ReturnDefault, NoContainer, Found, NotFound,
       NoName, HandleCall, defaultVars

LEMMA StepExplained ==
    DefaultInv /\ Explained /\ [DefaultNext]_defaultVars => Explained'
<1> SUFFICES ASSUME DefaultInv, Explained, [DefaultNext]_defaultVars,
                    linked' # "sound"
             PROVE  Explained'
  BY DEF Explained
<1> USE DEF DefaultInv
<1>1. linked' = linked /\ linked # "sound"
  BY SameLinked
<1>2. /\ opened = 0 /\ default = NULL /\ ~succeeded
      /\ \A t \in Threads : handle[t] = NULL
  BY <1>1 DEF Explained, Stored, NULL
<1>3. ASSUME NEW t \in Threads, Call(t)
      PROVE  Explained'
  BY <1>1, <1>2, <1>3 DEF Call, Goto, globals, history, Explained, DefaultTypeOK
<1>4. ASSUME NEW t \in Threads, AlreadyAttempted(t)
      PROVE  Explained'
  <2> USE <1>4 DEF AlreadyAttempted, Goto, globals, history
  <2>1. refused
    BY <1>1, <1>2 DEF Explained, Alone, Inside
  <2> QED
    BY <1>2, <2>1 DEF Explained
<1>5. ASSUME NEW t \in Threads, FirstAttempt(t)
      PROVE  Explained'
  <2> USE <1>5 DEF FirstAttempt, Goto, globals, history
  <2>1. at'[t] = "open" /\ \A u \in Threads \ {t} : at'[u] = at[u]
    BY DEF DefaultTypeOK
  <2> QED
    BY <1>1, <1>2, <2>1 DEF Explained
<1>6. ASSUME NEW t \in Threads, NothingLinked(t) \/ OpenFails(t)
      PROVE  Explained'
  <2> USE <1>6 DEF NothingLinked, OpenFails, SetError, Goto, globals, history
  <2>1. lastError'[t] = Refusal[linked] /\ at'[t] \in {"return", "use"}
    BY DEF DefaultTypeOK, Refusal
  <2>2. \A u \in Threads \ {t} : at'[u] = at[u] /\ lastError'[u] = lastError[u]
    BY DEF DefaultTypeOK
  <2>3. \A u \in Threads : handle'[u] = NULL
    BY <1>2 DEF DefaultTypeOK
  <2>4. opened' = 0 /\ ~succeeded' /\ refused' = refused
    BY <1>2
  <2> QED
    BY <1>1, <2>1, <2>2, <2>3, <2>4 DEF Explained
<1>7. ASSUME NEW t \in Threads,
             OpenSucceeds(t) \/ Found(t) \/ NotFound(t) \/ NoName(t)
      PROVE  FALSE
  BY <1>1, <1>2, <1>7 DEF OpenSucceeds, Found, NotFound, NoName
<1>8. ASSUME NEW t \in Threads, ReturnDefault(t)
      PROVE  Explained'
  <2> USE <1>8 DEF ReturnDefault, Goto, globals, history
  <2>1. \A u \in Threads : handle'[u] = NULL
    BY <1>2 DEF DefaultTypeOK
  <2>2. at'[t] = "use" /\ \A u \in Threads \ {t} : at'[u] = at[u]
    BY DEF DefaultTypeOK
  <2> QED
    BY <1>1, <1>2, <2>1, <2>2 DEF Explained
<1>9. ASSUME NEW t \in Threads, NoContainer(t)
      PROVE  Explained'
  BY <1>2, <1>9 DEF NoContainer, globals, Explained
<1>10. ASSUME NEW t \in Threads, HandleCall(t)
       PROVE  Explained'
  <2> USE <1>10 DEF HandleCall, SetError, globals, history
  <2>1. \A u \in Threads : at[u] # "idle" => lastError'[u] = lastError[u]
    BY DEF DefaultTypeOK
  <2> QED
    BY <1>1, <1>2, <2>1 DEF Explained
<1>11. CASE UNCHANGED defaultVars
  BY <1>11 DEF defaultVars, globals, history, Explained
<1> QED
  BY <1>3, <1>4, <1>5, <1>6, <1>7, <1>8, <1>9, <1>10, <1>11 DEF DefaultNext, Step

(* When there is no usable container, the first call that comes back without *)
(* one leaves its thread the reason, for any number of threads and whatever  *)
(* calls they make on handles of their own meanwhile.                        *)
THEOREM RefusalExplained == DefaultSpec => FirstRefusalExplained
<1>1. DefaultInv /\ Explained /\ [DefaultNext]_defaultVars =>
        [\A t \in Threads :
            linked # "sound" /\ ~refused /\ at[t] = "use" /\ at'[t] = "idle"
                => lastError'[t] = Refusal[linked]]_defaultVars
  <2> SUFFICES ASSUME DefaultInv, Explained, DefaultNext, NEW t \in Threads,
                      linked # "sound", ~refused, at[t] = "use", at'[t] = "idle"
               PROVE  lastError'[t] = Refusal[linked]
    OBVIOUS
  <2>1. lastError[t] = Refusal[linked] /\ handle[t] = NULL
    BY DEF Explained
  <2>2. PICK u \in Threads : Call(u) \/ Step(u) \/ HandleCall(u)
    BY DEF DefaultNext
  <2>3. CASE u # t
    <3>1. at'[t] = at[t]
      BY <2>2, <2>3 DEF DefaultInv, DefaultTypeOK, Call, Step, AlreadyAttempted,
         FirstAttempt, NothingLinked, OpenFails, OpenSucceeds, ReturnDefault,
         NoContainer, Found, NotFound, NoName, HandleCall, Goto
    <3> QED
      BY <3>1
  <2>4. CASE u = t
    <3>1. NoContainer(t)
      BY <2>1, <2>2, <2>4 DEF Call, Step, AlreadyAttempted, FirstAttempt,
         NothingLinked, OpenFails, OpenSucceeds, ReturnDefault, Found, NotFound,
         NoName, HandleCall
    <3> QED
      BY <2>1, <3>1 DEF NoContainer
  <2> QED
    BY <2>3, <2>4
<1> QED
  BY <1>1, InitExplained, StepExplained, DefaultInvariant, PTL
     DEF DefaultSpec, FirstRefusalExplained

=============================================================================
