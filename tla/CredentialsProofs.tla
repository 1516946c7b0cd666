-------------------------- MODULE CredentialsProofs --------------------------
(***************************************************************************)
(* Proofs about HkaCredentials, for any number of calls and any HKA_ENV.   *)
(***************************************************************************)
EXTENDS HkaCredentials, SequenceTheorems, TLAPS

\* The client is configured before anyone uses it.
ClientConfigured ==
    cfg = "none" => \A c \in Calls : pc[c] \in {"idle", "resolved", "answered"}

\* The types, and what the credentials that a call reads depend on.
TypeInv == TypeOK /\ ClientConfigured

\* The callback of c runs under withHKACredentials.
Inside(c) == kind[c] \in {"within", "process"} /\ pc[c] \notin {"idle", "resolved"}

\* The history holds each of them once, and no other call.
StackIsInside ==
    /\ \A c \in Calls : Inside(c) <=> \E i \in 1..Len(stack) : stack[i] = c
    /\ \A i, j \in 1..Len(stack) : stack[i] = stack[j] => i = j

Home == [env |-> HomeEnv, token |-> None]

\* The process's environment when the innermost n callbacks' tenant is on top.
Level(n) == IF n = 0 THEN Home ELSE [env |-> want[stack[n]], token |-> stack[n]]

\* Each callback found what the one around it had set, and the innermost one's
\* credentials are set now.
SavedNests == ~crossed =>
    /\ \A i \in 1..Len(stack) : saved[stack[i]] = Level(i - 1)
    /\ env = Level(Len(stack)).env /\ token = Level(Len(stack)).token

StackInv == StackIsInside /\ SavedNests

OneCall == ~overlapped => \A c, d \in Calls : pc[c] # "idle" /\ pc[d] # "idle" => c = d

\* Without overlaps the client is connected to what it is configured for.
ClientMatches == ~overlapped =>
    /\ client # "none" => client = cfg
    /\ \A c \in Calls : pc[c] \in {"connecting", "reconnecting"} => url[c] = cfg

\* ... and that is the environment of the call under withHKACredentials.
WithinIsServed == ~overlapped =>
    \A c \in Calls : kind[c] = "within" =>
        /\ pc[c] # "reconnecting"
        /\ pc[c] \in {"connecting", "ready", "armed", "calling"} => cfg = want[c]
        /\ pc[c] \in {"ready", "armed", "calling"} => client = want[c]
        /\ pc[c] \in {"armed", "calling"} => creds[c] = want[c]
        /\ pc[c] = "calling" => url[c] = want[c]

SoloInv == OneCall /\ ClientMatches /\ WithinIsServed

-----------------------------------------------------------------------------
\* What Init establishes.
LEMMA InitEstablishes == Init => TypeInv /\ NothingLeftInjected /\ StackInv /\ SoloInv
<1> SUFFICES ASSUME Init PROVE TypeInv /\ NothingLeftInjected /\ StackInv /\ SoloInv  OBVIOUS
<1>1. TypeInv
  <2>1. crossed \in BOOLEAN /\ overlapped \in BOOLEAN
        BY Zenon DEF Init
  <2>2. stack \in Seq(Calls)
        BY DEF Init
  <2>3. saved \in [Calls -> [env : EnvValues, token : Calls \cup {None}]]
        BY CredentialsAssumption DEF Init, EnvValues
  <2>4. /\ env \in EnvValues /\ token = None /\ cfg = "none" /\ client = "none"
        /\ injected = None
        BY CredentialsAssumption DEF Init, EnvValues
  <2>5. /\ pc = [c \in Calls |-> "idle"] /\ kind = [c \in Calls |-> "plain"]
        /\ want = [c \in Calls |-> "demo"] /\ creds = [c \in Calls |-> None]
        /\ url = [c \in Calls |-> "none"]
        BY DEF Init
  <2> QED  BY <2>1, <2>2, <2>3, <2>4, <2>5 DEF TypeInv, TypeOK, ClientConfigured,
      Environments
<1>2. NothingLeftInjected /\ SoloInv
      BY DEF Init, NothingLeftInjected, SoloInv, OneCall, ClientMatches, WithinIsServed
<1>3. StackInv
      BY DEF Init, StackInv, StackIsInside, SavedNests, Inside, Level, Home
<1> QED  BY <1>1, <1>2, <1>3

-----------------------------------------------------------------------------
\* The types, one step per action.
LEMMA TypeStep == TypeInv /\ [Next]_vars => TypeInv'
<1> SUFFICES ASSUME TypeInv, [Next]_vars PROVE TypeInv'  OBVIOUS
<1> USE CredentialsAssumption DEF TypeInv, TypeOK, ClientConfigured, Environments, EnvValues
<1>1. ASSUME NEW c \in Calls, NEW k \in {"within", "process", "execute"}, Resolve(c, k)
      PROVE  TypeInv'
      BY <1>1 DEF Resolve, Start, Go, envVars, clientVars
<1>2. ASSUME NEW c \in Calls, StartPlain(c) PROVE TypeInv'
      BY <1>2 DEF StartPlain, Start, Go, UpdateConfiguration, EnvOf, ReadCredentials,
         envVars
<1>3. ASSUME NEW c \in Calls, Enter(c) PROVE TypeInv'
  <2>1. saved' \in [Calls -> [env : EnvValues, token : Calls \cup {None}]]
        BY <1>3 DEF Enter
  <2>2. stack' \in Seq(Calls)
        BY <1>3 DEF Enter
  <2>3. env' \in EnvValues /\ token' \in Calls \cup {None}
        BY <1>3 DEF Enter
  <2>4. UNCHANGED <<injected, kind, want, creds, crossed, overlapped>>
        BY <1>3 DEF Enter, clientVars
  <2>5. CASE Initialize(c, want[c])
    <3>1. cfg' \in Environments /\ client' \in {"none"} \cup Environments
          BY <2>5 DEF Initialize, UpdateConfiguration, EnvOf
    <3>2. \E l \in {"connecting", "ready"} : pc' = [pc EXCEPT ![c] = l]
          BY <2>5 DEF Initialize, Go
    <3>3. url' = [url EXCEPT ![c] = EnvOf(want[c])] \/ url' = url
          BY <2>5 DEF Initialize
    <3>4. url' \in [Calls -> {"none"} \cup Environments]
          BY <3>3 DEF EnvOf
    <3>5. ClientConfigured'
          BY <3>1
    <3>6. pc' \in [Calls -> {"idle", "resolved", "connecting", "ready", "armed",
                             "reconnecting", "calling", "answered"}]
          BY <3>2
    <3>7. /\ injected' \in Calls \cup Environments \cup {"empty", None}
          /\ kind' \in [Calls -> {"within", "process", "execute", "plain"}]
          /\ want' \in [Calls -> Environments]
          /\ creds' \in [Calls -> Calls \cup Environments \cup {"empty", None}]
          BY <2>4
    <3>8. crossed' \in BOOLEAN /\ overlapped' \in BOOLEAN
          BY <2>4
    <3>9. TypeOK'
          BY <2>1, <2>2, <2>3, <3>1, <3>4, <3>6, <3>7, <3>8
    <3> QED  BY <3>5, <3>9
  <2>6. CASE Go(c, "answered") /\ UNCHANGED clientVars /\ UNCHANGED url
        BY <2>1, <2>2, <2>3, <2>4, <2>6 DEF Go, clientVars
  <2> QED  BY <1>3, <2>5, <2>6 DEF Enter
<1>4. ASSUME NEW c \in Calls, PrepareWithin(c) PROVE TypeInv'
      BY <1>4 DEF PrepareWithin, Go, ReadCredentials, envVars, clientVars
<1>5. ASSUME NEW c \in Calls, CallArmed(c) PROVE TypeInv'
      BY <1>5 DEF CallArmed, Invoke, Go, UpdateConfiguration, EnvOf, envVars
<1>6. ASSUME NEW c \in Calls, Refuse(c) PROVE TypeInv'
      BY <1>6 DEF Refuse, Go, Forget, envVars, clientVars
<1>7. ASSUME NEW c \in Calls, Leave(c) PROVE TypeInv'
      BY <1>7 DEF Leave, End, Go, Unstack, RemoveAt, clientVars
<1>8. ASSUME NEW c \in Calls, EnterExecute(c) PROVE TypeInv'
      BY <1>8 DEF EnterExecute, Initialize, Go, UpdateConfiguration, EnvOf, envVars
<1>9. ASSUME NEW c \in Calls, CallExecute(c) PROVE TypeInv'
      BY <1>9 DEF CallExecute, Invoke, Go, UpdateConfiguration, EnvOf, envVars
<1>10. ASSUME NEW c \in Calls, EndCall(c) PROVE TypeInv'
      BY <1>10 DEF EndCall, End, Go, clientVars
<1>11. ASSUME NEW c \in Calls, Connected(c) PROVE TypeInv'
      BY <1>11 DEF Connected, Go, Forget, envVars
<1>12. ASSUME NEW c \in Calls, Answer(c) PROVE TypeInv'
      BY <1>12 DEF Answer, Go, Forget, envVars
<1>13. CASE UNCHANGED vars
      BY <1>13 DEF vars, envVars, clientVars
<1> QED
    BY <1>1, <1>2, <1>3, <1>4, <1>5, <1>6, <1>7, <1>8, <1>9, <1>10, <1>11, <1>12,
       <1>13 DEF Next

\* Injected credentials, one step per action.
LEMMA InjectedStep == TypeInv /\ NothingLeftInjected /\ [Next]_vars => NothingLeftInjected'
<1> SUFFICES ASSUME TypeInv, NothingLeftInjected, [Next]_vars
             PROVE  NothingLeftInjected'
    OBVIOUS
<1> USE CredentialsAssumption DEF TypeInv, TypeOK, NothingLeftInjected
<1>1. ASSUME NEW c \in Calls, NEW k \in {"within", "process", "execute"}, Resolve(c, k)
      PROVE  NothingLeftInjected'
      BY <1>1 DEF Resolve, Start, Go, envVars, clientVars, Environments
<1>2. ASSUME NEW c \in Calls, StartPlain(c) PROVE NothingLeftInjected'
      BY <1>2 DEF StartPlain, Start, Go, UpdateConfiguration, EnvOf, ReadCredentials,
         envVars
<1>3. ASSUME NEW c \in Calls, Enter(c) PROVE NothingLeftInjected'
      BY <1>3 DEF Enter, Go, Initialize, UpdateConfiguration, EnvOf, clientVars
<1>4. ASSUME NEW c \in Calls, PrepareWithin(c) PROVE NothingLeftInjected'
      BY <1>4 DEF PrepareWithin, Go, ReadCredentials, envVars, clientVars
<1>5. ASSUME NEW c \in Calls, CallArmed(c) PROVE NothingLeftInjected'
      BY <1>5 DEF CallArmed, Invoke, Go, UpdateConfiguration, EnvOf, envVars
<1>6. ASSUME NEW c \in Calls, Refuse(c) PROVE NothingLeftInjected'
      BY <1>6 DEF Refuse, Go, Forget, envVars, clientVars
<1>7. ASSUME NEW c \in Calls, Leave(c) PROVE NothingLeftInjected'
      BY <1>7 DEF Leave, End, Go, Unstack, RemoveAt, clientVars
<1>8. ASSUME NEW c \in Calls, EnterExecute(c) PROVE NothingLeftInjected'
      BY <1>8 DEF EnterExecute, Initialize, Go, UpdateConfiguration, EnvOf, envVars
<1>9. ASSUME NEW c \in Calls, CallExecute(c) PROVE NothingLeftInjected'
      BY <1>9 DEF CallExecute, Invoke, Go, UpdateConfiguration, EnvOf, envVars
<1>10. ASSUME NEW c \in Calls, EndCall(c) PROVE NothingLeftInjected'
      BY <1>10 DEF EndCall, End, Go, clientVars
<1>11. ASSUME NEW c \in Calls, Connected(c) PROVE NothingLeftInjected'
      BY <1>11 DEF Connected, Go, Forget, envVars
<1>12. ASSUME NEW c \in Calls, Answer(c) PROVE NothingLeftInjected'
      BY <1>12 DEF Answer, Go, Forget, envVars
<1>13. CASE UNCHANGED vars
      BY <1>13 DEF vars, envVars, clientVars
<1> QED
    BY <1>1, <1>2, <1>3, <1>4, <1>5, <1>6, <1>7, <1>8, <1>9, <1>10, <1>11, <1>12,
       <1>13 DEF Next

\* RemoveAt shifts what follows the place by one.
LEMMA RemoveAtElements ==
    ASSUME NEW S, NEW s \in Seq(S), NEW k \in 1..Len(s)
    PROVE  /\ RemoveAt(s, k) \in Seq(S) /\ Len(RemoveAt(s, k)) = Len(s) - 1
           /\ \A i \in 1..(Len(s) - 1) : RemoveAt(s, k)[i] = IF i < k THEN s[i] ELSE s[i + 1]
<1> DEFINE a == SubSeq(s, 1, k - 1)
           b == SubSeq(s, k + 1, Len(s))
<1>1. a \in Seq(S) /\ Len(a) = k - 1 /\ \A i \in 1..(k - 1) : a[i] = s[i]
      OBVIOUS
<1>2. /\ b \in Seq(S) /\ Len(b) = Len(s) - k
      /\ \A i \in 1..(Len(s) - k) : b[i] = s[k + i]
      OBVIOUS
<1>3. /\ a \o b \in Seq(S) /\ Len(a \o b) = Len(a) + Len(b)
      /\ \A i \in 1..(Len(a) + Len(b)) :
             (a \o b)[i] = IF i <= Len(a) THEN a[i] ELSE b[i - Len(a)]
      BY <1>1, <1>2, ConcatProperties
<1>4. RemoveAt(s, k) = a \o b
      BY DEF RemoveAt
<1> HIDE DEF a, b
<1>5. ASSUME NEW i \in 1..(Len(s) - 1)
      PROVE  (a \o b)[i] = IF i < k THEN s[i] ELSE s[i + 1]
  <2>1. CASE i < k
        BY <1>1, <1>2, <1>3, <2>1
  <2>2. CASE ~(i < k)
    <3>1. /\ i - (k - 1) \in 1..(Len(s) - k) /\ k + (i - (k - 1)) = i + 1
          BY <2>2
    <3>2. (a \o b)[i] = b[i - (k - 1)]
          BY <1>1, <1>2, <1>3, <2>2
    <3> QED  BY <1>2, <2>2, <3>1, <3>2
  <2> QED  BY <2>1, <2>2
<1>6. RemoveAt(s, k) \in Seq(S) /\ Len(RemoveAt(s, k)) = Len(s) - 1
  <2>1. Len(a \o b) = (k - 1) + (Len(s) - k)
        BY <1>1, <1>2, <1>3
  <2>2. (k - 1) + (Len(s) - k) = Len(s) - 1
        OBVIOUS
  <2> QED  BY <1>3, <1>4, <2>1, <2>2, Zenon
<1>7. \A i \in 1..(Len(s) - 1) : RemoveAt(s, k)[i] = IF i < k THEN s[i] ELSE s[i + 1]
      BY <1>4, <1>5
<1> QED  BY <1>6, <1>7

\* A step of a call that neither enters nor leaves keeps the stack as it is.
LEMMA StackKept ==
    ASSUME StackInv, UNCHANGED envVars \/ UNCHANGED <<env, token, stack, crossed>>,
           stack \in Seq(Calls),
           \A d \in Calls : Inside(d)' <=> Inside(d),
           \A d \in Calls : Inside(d) => saved'[d] = saved[d] /\ want'[d] = want[d]
    PROVE  StackInv'
<1>1. UNCHANGED <<env, token, stack, crossed>>
      BY DEF envVars
<1>2. \A i \in 1..Len(stack) : stack[i] \in Calls /\ Inside(stack[i])
      BY DEF StackInv, StackIsInside
<1>3. StackIsInside'
      BY <1>1 DEF StackInv, StackIsInside
<1>4. \A i \in 1..Len(stack) : Level(i)' = Level(i)
      BY <1>1, <1>2 DEF Level
<1>5. Level(0)' = Level(0)
      BY DEF Level, Home
<1>6. SavedNests'
      BY <1>1, <1>2, <1>4, <1>5 DEF StackInv, SavedNests
<1> QED  BY <1>3, <1>6 DEF StackInv

\* Entering and leaving, one step per action.
LEMMA StackStep == TypeInv /\ StackInv /\ [Next]_vars => StackInv'
<1> SUFFICES ASSUME TypeInv, StackInv, [Next]_vars PROVE StackInv'  OBVIOUS
<1> USE CredentialsAssumption DEF TypeInv, TypeOK
<1>1. ASSUME NEW c \in Calls, NEW k \in {"within", "process", "execute"}, Resolve(c, k)
      PROVE  StackInv'
  <2>1. \A d \in Calls : Inside(d)' <=> Inside(d)
        BY <1>1 DEF Resolve, Start, Go, envVars, clientVars, Inside
  <2>2. \A d \in Calls : Inside(d) => saved'[d] = saved[d] /\ want'[d] = want[d]
        BY <1>1 DEF Resolve, Start, Go, envVars, clientVars, Inside
  <2>3. UNCHANGED envVars \/ UNCHANGED <<env, token, stack, crossed>>
        BY <1>1 DEF Resolve
  <2> QED  BY <2>1, <2>2, <2>3, StackKept
<1>2. ASSUME NEW c \in Calls, StartPlain(c) PROVE StackInv'
  <2>1. \A d \in Calls : Inside(d)' <=> Inside(d)
        BY <1>2 DEF StartPlain, Start, Go, UpdateConfiguration, ReadCredentials, envVars,
           Inside
  <2>2. \A d \in Calls : Inside(d) => saved'[d] = saved[d] /\ want'[d] = want[d]
        BY <1>2 DEF StartPlain, Start, Go, UpdateConfiguration, ReadCredentials, envVars,
           Inside
  <2>3. UNCHANGED envVars \/ UNCHANGED <<env, token, stack, crossed>>
        BY <1>2 DEF StartPlain
  <2> QED  BY <2>1, <2>2, <2>3, StackKept
<1>3. ASSUME NEW c \in Calls, Enter(c) PROVE StackInv'
  <2>0. PICK n \in Nat : n = Len(stack)
        OBVIOUS
  <2>1. /\ n \in Nat /\ Len(stack') = n + 1 /\ stack'[n + 1] = c
        /\ \A i \in 1..n : stack'[i] = stack[i] /\ stack[i] \in Calls
        BY <1>3, <2>0 DEF Enter
  <2>2. Inside(c)' /\ ~Inside(c)
        BY <1>3 DEF Enter, Initialize, Go, Inside
  <2>3. \A d \in Calls \ {c} : Inside(d)' <=> Inside(d)
        BY <1>3 DEF Enter, Initialize, Go, Inside
  <2>4. \A i \in 1..n : stack[i] # c
        BY <2>0, <2>2 DEF StackInv, StackIsInside
  <2>5. StackIsInside'
    <3>1. \A d \in Calls : Inside(d)' <=> \E i \in 1..(n + 1) : stack'[i] = d
          BY <2>0, <2>1, <2>2, <2>3, <2>4 DEF StackInv, StackIsInside
    <3>2. \A i, j \in 1..(n + 1) : stack'[i] = stack'[j] => i = j
          BY <2>0, <2>1, <2>4 DEF StackInv, StackIsInside
    <3> QED  BY <2>1, <3>1, <3>2 DEF StackIsInside
  <2>6. SavedNests'
    <3>1. SUFFICES ASSUME ~crossed'
                   PROVE  /\ \A i \in 1..(n + 1) : saved'[stack'[i]] = Level(i - 1)'
                          /\ env' = Level(n + 1)'.env /\ token' = Level(n + 1)'.token
          BY <2>1 DEF SavedNests
    <3>2. \A i \in 0..n : Level(i)' = Level(i)
          BY <1>3, <2>0, <2>1 DEF Enter, Level, Home
    <3>3. env = Level(n).env /\ token = Level(n).token
          BY <1>3, <2>0, <3>1 DEF Enter, StackInv, SavedNests
    <3>4. saved'[c] = [env |-> env, token |-> token]
          BY <1>3 DEF Enter
    <3>5. Level(n) = [env |-> Level(n).env, token |-> Level(n).token]
          BY <2>1 DEF Level, Home
    <3>6. \A i \in 1..n : saved'[stack'[i]] = Level(i - 1)
          BY <1>3, <2>0, <2>1, <2>4, <3>1 DEF Enter, StackInv, SavedNests
    <3>7. env' = Level(n + 1)'.env /\ token' = Level(n + 1)'.token
          BY <1>3, <2>0, <2>1 DEF Enter, Level
    <3>8. saved'[stack'[n + 1]] = Level(n)'
          BY <2>1, <3>2, <3>3, <3>4, <3>5
    <3>9. ASSUME NEW i \in 1..(n + 1) PROVE saved'[stack'[i]] = Level(i - 1)'
      <4>1. CASE i = n + 1
            BY <2>1, <3>8, <4>1
      <4>2. CASE i \in 1..n
        <5>1. i - 1 \in 0..n
              BY <2>1, <4>2
        <5> QED  BY <3>2, <3>6, <4>2, <5>1
      <4> QED  BY <2>1, <4>1, <4>2
    <3> QED  BY <3>7, <3>9
  <2> QED  BY <2>5, <2>6 DEF StackInv
<1>4. ASSUME NEW c \in Calls, PrepareWithin(c) PROVE StackInv'
  <2>1. \A d \in Calls : Inside(d)' <=> Inside(d)
        BY <1>4 DEF PrepareWithin, Go, ReadCredentials, envVars, clientVars, Inside
  <2>2. \A d \in Calls : Inside(d) => saved'[d] = saved[d] /\ want'[d] = want[d]
        BY <1>4 DEF PrepareWithin, Go, ReadCredentials, envVars, clientVars, Inside
  <2>3. UNCHANGED envVars \/ UNCHANGED <<env, token, stack, crossed>>
        BY <1>4 DEF PrepareWithin
  <2> QED  BY <2>1, <2>2, <2>3, StackKept
<1>5. ASSUME NEW c \in Calls, CallArmed(c) PROVE StackInv'
  <2>1. \A d \in Calls : Inside(d)' <=> Inside(d)
        BY <1>5 DEF CallArmed, Invoke, Go, UpdateConfiguration, envVars, Inside
  <2>2. \A d \in Calls : Inside(d) => saved'[d] = saved[d] /\ want'[d] = want[d]
        BY <1>5 DEF CallArmed, Invoke, Go, UpdateConfiguration, envVars, Inside
  <2>3. UNCHANGED envVars \/ UNCHANGED <<env, token, stack, crossed>>
        BY <1>5 DEF CallArmed
  <2> QED  BY <2>1, <2>2, <2>3, StackKept
<1>6. ASSUME NEW c \in Calls, Refuse(c) PROVE StackInv'
  <2>1. \A d \in Calls : Inside(d)' <=> Inside(d)
        BY <1>6 DEF Refuse, Go, Forget, envVars, clientVars, Inside
  <2>2. \A d \in Calls : Inside(d) => saved'[d] = saved[d] /\ want'[d] = want[d]
        BY <1>6 DEF Refuse, Go, Forget, envVars, clientVars, Inside
  <2>3. UNCHANGED envVars \/ UNCHANGED <<env, token, stack, crossed>>
        BY <1>6 DEF Refuse
  <2> QED  BY <2>1, <2>2, <2>3, StackKept
<1>7. ASSUME NEW c \in Calls, Leave(c) PROVE StackInv'
  <2>0. PICK n \in Nat : n = Len(stack)
        OBVIOUS
  <2>1. PICK k \in 1..n : /\ stack[k] = c
                          /\ stack' = RemoveAt(stack, k)
                          /\ crossed' = (crossed \/ k # n)
        BY <1>7, <2>0 DEF Leave, Unstack
  <2>2. /\ n \in Nat \ {0} /\ Len(stack') = n - 1
        /\ \A i \in 1..(n - 1) : stack'[i] = IF i < k THEN stack[i] ELSE stack[i + 1]
        BY <2>0, <2>1, RemoveAtElements
  <2>3. \A i \in 1..n : stack[i] \in Calls /\ (stack[i] = c => i = k)
        BY <2>0, <2>1 DEF StackInv, StackIsInside
  <2>4. /\ ~Inside(c)'
        /\ \A d \in Calls \ {c} : Inside(d)' <=> Inside(d)
        BY <1>7 DEF Leave, End, Go, Inside
  <2>5. StackIsInside'
    <3>1. ASSUME NEW d \in Calls PROVE Inside(d)' <=> \E i \in 1..(n - 1) : stack'[i] = d
      <4>1. CASE d = c
            BY <2>2, <2>3, <2>4, <4>1
      <4>2. CASE d # c
        <5>1. ASSUME NEW i \in 1..n, stack[i] = d PROVE \E j \in 1..(n - 1) : stack'[j] = d
          <6>1. i # k
                BY <2>1, <4>2, <5>1
          <6>2. CASE i < k
            <7>1. i \in 1..(n - 1) /\ stack'[i] = d
                  BY <2>1, <2>2, <5>1, <6>2
            <7> QED  BY <7>1
          <6>3. CASE i > k
            <7>1. i - 1 \in 1..(n - 1) /\ stack'[i - 1] = d
                  BY <2>1, <2>2, <5>1, <6>3
            <7> QED  BY <7>1
          <6> QED  BY <6>1, <6>2, <6>3
        <5>2. ASSUME NEW i \in 1..(n - 1), stack'[i] = d PROVE \E j \in 1..n : stack[j] = d
              BY <2>2, <5>2
        <5> QED  BY <2>0, <2>4, <4>2, <5>1, <5>2 DEF StackInv, StackIsInside
      <4> QED  BY <4>1, <4>2
    <3>2. \A i, j \in 1..(n - 1) : stack'[i] = stack'[j] => i = j
          BY <2>0, <2>1, <2>2 DEF StackInv, StackIsInside
    <3> QED  BY <2>2, <3>1, <3>2 DEF StackIsInside
  <2>6. SavedNests'
    <3>1. SUFFICES ASSUME ~crossed'
                   PROVE  /\ \A i \in 1..(n - 1) : saved'[stack'[i]] = Level(i - 1)'
                          /\ env' = Level(n - 1)'.env /\ token' = Level(n - 1)'.token
          BY <2>2 DEF SavedNests
    <3>2. k = n /\ ~crossed
          BY <2>1, <3>1
    <3>3. \A i \in 1..(n - 1) : stack'[i] = stack[i] /\ stack[i] # c /\ stack[i] \in Calls
          BY <2>2, <2>3, <3>2
    <3>4. \A i \in 0..(n - 1) : Level(i)' = Level(i)
          BY <1>7, <3>3 DEF Leave, End, Level, Home
    <3>5. \A i \in 1..n : saved[stack[i]] = Level(i - 1)
          BY <2>0, <3>2 DEF StackInv, SavedNests
    <3>6. env' = Level(n - 1)'.env /\ token' = Level(n - 1)'.token
          BY <1>7, <2>1, <2>2, <3>2, <3>4, <3>5 DEF Leave
    <3>7. ASSUME NEW i \in 1..(n - 1) PROVE saved'[stack'[i]] = Level(i - 1)'
      <4>1. i - 1 \in 0..(n - 1) /\ i \in 1..n
            BY <2>2
      <4>2. saved'[stack'[i]] = saved[stack[i]]
            BY <1>7, <3>3 DEF Leave, End
      <4> QED  BY <3>4, <3>5, <4>1, <4>2
    <3> QED  BY <3>6, <3>7
  <2> QED  BY <2>5, <2>6 DEF StackInv
<1>8. ASSUME NEW c \in Calls, EnterExecute(c) PROVE StackInv'
  <2>1. \A d \in Calls : Inside(d)' <=> Inside(d)
        BY <1>8 DEF EnterExecute, Initialize, Go, UpdateConfiguration, envVars, Inside
  <2>2. \A d \in Calls : Inside(d) => saved'[d] = saved[d] /\ want'[d] = want[d]
        BY <1>8 DEF EnterExecute, Initialize, Go, UpdateConfiguration, envVars, Inside
  <2>3. UNCHANGED envVars \/ UNCHANGED <<env, token, stack, crossed>>
        BY <1>8 DEF EnterExecute
  <2> QED  BY <2>1, <2>2, <2>3, StackKept
<1>9. ASSUME NEW c \in Calls, CallExecute(c) PROVE StackInv'
  <2>1. \A d \in Calls : Inside(d)' <=> Inside(d)
        BY <1>9 DEF CallExecute, Invoke, Go, UpdateConfiguration, envVars, Inside
  <2>2. \A d \in Calls : Inside(d) => saved'[d] = saved[d] /\ want'[d] = want[d]
        BY <1>9 DEF CallExecute, Invoke, Go, UpdateConfiguration, envVars, Inside
  <2>3. UNCHANGED envVars \/ UNCHANGED <<env, token, stack, crossed>>
        BY <1>9 DEF CallExecute
  <2> QED  BY <2>1, <2>2, <2>3, StackKept
<1>10. ASSUME NEW c \in Calls, EndCall(c) PROVE StackInv'
  <2>1. \A d \in Calls : Inside(d)' <=> Inside(d)
        BY <1>10 DEF EndCall, End, Go, clientVars, Inside
  <2>2. \A d \in Calls : Inside(d) => saved'[d] = saved[d] /\ want'[d] = want[d]
        BY <1>10 DEF EndCall, End, Go, clientVars, Inside
  <2>3. UNCHANGED envVars \/ UNCHANGED <<env, token, stack, crossed>>
        BY <1>10 DEF EndCall
  <2> QED  BY <2>1, <2>2, <2>3, StackKept
<1>11. ASSUME NEW c \in Calls, Connected(c) PROVE StackInv'
  <2>1. \A d \in Calls : Inside(d)' <=> Inside(d)
        BY <1>11 DEF Connected, Go, Forget, envVars, Inside
  <2>2. \A d \in Calls : Inside(d) => saved'[d] = saved[d] /\ want'[d] = want[d]
        BY <1>11 DEF Connected, Go, Forget, envVars, Inside
  <2>3. UNCHANGED envVars \/ UNCHANGED <<env, token, stack, crossed>>
        BY <1>11 DEF Connected
  <2> QED  BY <2>1, <2>2, <2>3, StackKept
<1>12. ASSUME NEW c \in Calls, Answer(c) PROVE StackInv'
  <2>1. \A d \in Calls : Inside(d)' <=> Inside(d)
        BY <1>12 DEF Answer, Go, Forget, envVars, Inside
  <2>2. \A d \in Calls : Inside(d) => saved'[d] = saved[d] /\ want'[d] = want[d]
        BY <1>12 DEF Answer, Go, Forget, envVars, Inside
  <2>3. UNCHANGED envVars \/ UNCHANGED <<env, token, stack, crossed>>
        BY <1>12 DEF Answer
  <2> QED  BY <2>1, <2>2, <2>3, StackKept
<1>13. CASE UNCHANGED vars
      BY <1>13, StackKept DEF vars, envVars, Inside
<1> QED
    BY <1>1, <1>2, <1>3, <1>4, <1>5, <1>6, <1>7, <1>8, <1>9, <1>10, <1>11, <1>12,
       <1>13 DEF Next

\* Calls that run alone, one step per action.
LEMMA SoloStep == TypeInv /\ NothingLeftInjected /\ SoloInv /\ [Next]_vars => SoloInv'
<1> SUFFICES ASSUME TypeInv, NothingLeftInjected, SoloInv, [Next]_vars PROVE SoloInv'  OBVIOUS
<1> USE CredentialsAssumption DEF TypeInv, TypeOK, NothingLeftInjected, SoloInv, OneCall,
       ClientMatches, WithinIsServed, Environments
<1>1. ASSUME NEW c \in Calls, NEW k \in {"within", "process", "execute"}, Resolve(c, k)
      PROVE  SoloInv'
      BY <1>1 DEF Resolve, Start, Go, envVars, clientVars
<1>2. ASSUME NEW c \in Calls, StartPlain(c) PROVE SoloInv'
      BY <1>2 DEF StartPlain, Start, Go, UpdateConfiguration, EnvOf, ReadCredentials,
         envVars
<1>3. ASSUME NEW c \in Calls, Enter(c) PROVE SoloInv'
  <2>1. \E l \in {"connecting", "ready", "answered"} : pc' = [pc EXCEPT ![c] = l]
        BY <1>3 DEF Enter, Initialize, Go
  <2>2. UNCHANGED <<injected, kind, want, creds, overlapped>>
        BY <1>3 DEF Enter, clientVars
  <2>3. OneCall'
        BY <1>3, <2>1, <2>2 DEF Enter
  <2>4. SUFFICES ASSUME ~overlapped PROVE ClientMatches' /\ WithinIsServed'
        BY <2>2, <2>3
  <2>5. \A d \in Calls \ {c} : pc[d] = "idle" /\ pc'[d] = "idle"
        BY <1>3, <2>1, <2>4 DEF Enter
  <2>6. CASE kind[c] = "within" /\ Initialize(c, want[c])
    <3>1. cfg' = want[c] /\ (client' = "none" \/ client' = want[c])
          BY <2>4, <2>6 DEF Initialize, UpdateConfiguration, EnvOf
    <3>2. CASE client' = "none" /\ pc'[c] = "connecting" /\ url'[c] = want[c]
          BY <2>2, <2>5, <3>1, <3>2
    <3>3. CASE client' # "none" /\ pc'[c] = "ready"
          BY <2>2, <2>5, <3>1, <3>3
    <3> QED  BY <2>1, <2>6, <3>2, <3>3 DEF Initialize, Go, EnvOf
  <2>7. CASE Go(c, "answered") /\ UNCHANGED clientVars /\ UNCHANGED url
    <3>1. pc'[c] = "answered"
          BY <2>7 DEF Go
    <3> QED  BY <2>2, <2>4, <2>5, <2>7, <3>1 DEF clientVars
  <2> QED  BY <1>3, <2>6, <2>7 DEF Enter
<1>4. ASSUME NEW c \in Calls, PrepareWithin(c) PROVE SoloInv'
      BY <1>4 DEF PrepareWithin, Go, ReadCredentials, envVars, clientVars
<1>5. ASSUME NEW c \in Calls, CallArmed(c) PROVE SoloInv'
      BY <1>5 DEF CallArmed, Invoke, Go, UpdateConfiguration, EnvOf, envVars
<1>6. ASSUME NEW c \in Calls, Refuse(c) PROVE SoloInv'
      BY <1>6 DEF Refuse, Go, Forget, envVars, clientVars
<1>7. ASSUME NEW c \in Calls, Leave(c) PROVE SoloInv'
      BY <1>7 DEF Leave, End, Go, Unstack, RemoveAt, clientVars
<1>8. ASSUME NEW c \in Calls, EnterExecute(c) PROVE SoloInv'
  <2>1. \E l \in {"connecting", "ready"} : pc' = [pc EXCEPT ![c] = l]
        BY <1>8 DEF EnterExecute, Initialize, Go
  <2>2. UNCHANGED <<injected, kind, want, overlapped>>
        BY <1>8 DEF EnterExecute
  <2>3. OneCall'
        BY <1>8, <2>1, <2>2 DEF EnterExecute
  <2>4. SUFFICES ASSUME ~overlapped PROVE ClientMatches' /\ WithinIsServed'
        BY <2>2, <2>3
  <2>5. \A d \in Calls \ {c} : pc[d] = "idle" /\ pc'[d] = "idle"
        BY <1>8, <2>1, <2>4 DEF EnterExecute
  <2>6. kind'[c] = "execute"
        BY <1>8, <2>2 DEF EnterExecute
  <2>7. client' # "none" => client' = cfg'
        BY <1>8, <2>4 DEF EnterExecute, Initialize, UpdateConfiguration
  <2>8. pc'[c] = "connecting" => url'[c] = cfg'
        BY <1>8 DEF EnterExecute, Initialize, UpdateConfiguration, Go
  <2> QED  BY <2>1, <2>5, <2>6, <2>7, <2>8
<1>9. ASSUME NEW c \in Calls, CallExecute(c) PROVE SoloInv'
      BY <1>9 DEF CallExecute, Invoke, Go, UpdateConfiguration, EnvOf, envVars
<1>10. ASSUME NEW c \in Calls, EndCall(c) PROVE SoloInv'
      BY <1>10 DEF EndCall, End, Go, clientVars
<1>11. ASSUME NEW c \in Calls, Connected(c) PROVE SoloInv'
  <2>1. \E l \in {"ready", "calling", "answered"} : pc' = [pc EXCEPT ![c] = l]
        BY <1>11 DEF Connected, Go
  <2>2. UNCHANGED <<cfg, kind, want, overlapped>>
        BY <1>11 DEF Connected
  <2>3. OneCall'
        BY <1>11, <2>1, <2>2 DEF Connected
  <2>4. SUFFICES ASSUME ~overlapped PROVE ClientMatches' /\ WithinIsServed'
        BY <2>2, <2>3
  <2>5. \A d \in Calls \ {c} : pc[d] = "idle" /\ pc'[d] = "idle"
        BY <1>11, <2>1, <2>4 DEF Connected
  <2>6. url[c] = cfg
        BY <1>11, <2>4 DEF Connected
  <2>7. CASE client' = url[c] /\ pc'[c] = (IF pc[c] = "connecting" THEN "ready" ELSE "calling")
    <3>1. kind[c] = "within" => pc'[c] = "ready" /\ cfg = want[c]
          BY <1>11, <2>4, <2>7 DEF Connected
    <3> QED  BY <2>1, <2>2, <2>4, <2>5, <2>6, <2>7, <3>1
  <2>8. CASE pc'[c] = "answered" /\ UNCHANGED client
        BY <2>1, <2>2, <2>4, <2>5, <2>8
  <2> QED  BY <1>11, <2>7, <2>8 DEF Connected, Go
<1>12. ASSUME NEW c \in Calls, Answer(c) PROVE SoloInv'
      BY <1>12 DEF Answer, Go, Forget, envVars
<1>13. CASE UNCHANGED vars
      BY <1>13 DEF vars, envVars, clientVars
<1> QED
    BY <1>1, <1>2, <1>3, <1>4, <1>5, <1>6, <1>7, <1>8, <1>9, <1>10, <1>11, <1>12,
       <1>13 DEF Next

-----------------------------------------------------------------------------
\* The strengthening: types, injected credentials, nesting, and calls that run alone.
THEOREM CredentialsInvariant ==
    Spec => [](TypeInv /\ NothingLeftInjected /\ StackInv /\ SoloInv)
<1> QED  BY InitEstablishes, TypeStep, InjectedStep, StackStep, SoloStep, PTL DEF Spec

\* Every variable keeps its shape, whatever the calls and HKA_ENV.
THEOREM CredentialsTypeOK == Spec => []TypeOK
<1>1. TypeInv => TypeOK
      BY DEF TypeInv
<1> QED  BY <1>1, CredentialsInvariant, PTL

\* While no two callbacks of withHKACredentials cross, process.env is that of the innermost
\* one, and the process's own when none runs.
THEOREM CredentialsEnvironmentNests == Spec => []EnvironmentNests
<1>1. TypeInv /\ StackInv => EnvironmentNests
  <2> SUFFICES ASSUME TypeOK, SavedNests, ~crossed
               PROVE  IF stack = <<>> THEN env = HomeEnv /\ token = None
                      ELSE env = want[stack[Len(stack)]] /\ token = stack[Len(stack)]
      BY DEF EnvironmentNests, StackInv, TypeInv
  <2>1. CASE stack = <<>>
        BY <2>1 DEF SavedNests, Level, Home
  <2>2. CASE stack # <<>>
    <3>1. Len(stack) # 0
          BY <2>2 DEF TypeOK
    <3> QED  BY <2>2, <3>1 DEF SavedNests, Level
  <2> QED  BY <2>1, <2>2
<1> QED  BY <1>1, CredentialsInvariant, PTL

\* A call under withHKACredentials that was alone all along reaches the environment of its
\* tenant with that environment's credentials, whatever the earlier calls left behind.
THEOREM CredentialsOwnEnvironment == Spec => []OwnEnvironment
<1>1. SoloInv => OwnEnvironment
      BY DEF SoloInv, WithinIsServed, OwnEnvironment
<1> QED  BY <1>1, CredentialsInvariant, PTL

\* Injected credentials do not outlive the calls on the wire.
THEOREM CredentialsNothingLeftInjected == Spec => []NothingLeftInjected
<1> QED  BY CredentialsInvariant, PTL

=============================================================================
