--------------------------- MODULE HkaCredentials ---------------------------
(***************************************************************************)
(* The credentials of HKA, the fiscal provider, in one Node.js process.    *)
(* withHKACredentials puts a tenant's credentials into process.env while   *)
(* its callback runs and restores what it found; the SOAP client is one    *)
(* object for all requests, with an environment, a connection and injected *)
(* credentials.  JavaScript runs to the next await, so an action is what   *)
(* happens between two of them, and any other call may run at an await.    *)
(*                                                                         *)
(* Four kinds of call are told apart:                                      *)
(*   "within"  anularDocumento, consultarDocumento, test-hka-connection    *)
(*   "process" processInvoice in test mode: the answer is simulated        *)
(*   "execute" consultarFolios, under executeWithCredentials               *)
(*   "plain"   enviarCorreoHKA, rastrearCorreoHKA, emitirNotaCredito       *)
(***************************************************************************)
EXTENDS Naturals, SequencesExt

CONSTANTS Calls,   \* calls in flight; a finished one is used again
          HomeEnv, \* HKA_ENV as the process was started: "unset", "demo" or "prod"
          None     \* no credentials

ASSUME CredentialsAssumption ==
    /\ HomeEnv \in {"unset", "demo", "prod"}
    /\ None \notin Calls \cup {"demo", "prod", "empty"}
    /\ Calls \cap {"demo", "prod", "empty"} = {}

VARIABLES
    env,      \* process.env.HKA_ENV
    token,    \* process.env.HKA_TOKEN_USER and _PASSWORD: the call whose tenant's they are
    cfg,      \* the client's environment and credentials: "none" before there is a client,
              \* "empty" after its constructor, then those of the environment
    client,   \* the WSDL the client is connected to, or "none"
    injected, \* injectedCredentials
    pc, kind,
    want,     \* the environment that was resolved for the call
    saved,    \* what withHKACredentials found
    creds,    \* the credentials the call sends
    url,      \* the WSDL it connects to or uses
    stack,    \* history: the callbacks of withHKACredentials that run, in order of entry
    crossed,  \* history: one of them ended before one that entered later
    overlapped \* history: two calls were in flight at once

envVars == <<env, token, saved, stack, crossed>>
clientVars == <<cfg, client, injected>>
vars == <<env, token, cfg, client, injected, pc, kind, want, saved, creds, url, stack,
          crossed, overlapped>>

Environments == {"demo", "prod"}

\* Faulty variant: an environment that is not set is used as it is.
EnvOfAsSet(e) == e

\* HKA_ENV or 'demo'
EnvOf(e) == IF e = "prod" THEN "prod" ELSE "demo"

Init ==
    /\ env = HomeEnv /\ token = None
    /\ cfg = "none" /\ client = "none" /\ injected = None
    /\ pc = [c \in Calls |-> "idle"]
    /\ kind = [c \in Calls |-> "plain"]
    /\ want = [c \in Calls |-> "demo"]
    /\ saved = [c \in Calls |-> [env |-> HomeEnv, token |-> None]]
    /\ creds = [c \in Calls |-> None]
    /\ url = [c \in Calls |-> "none"]
    /\ stack = <<>> /\ crossed = FALSE /\ overlapped = FALSE

Go(c, l) == pc' = [pc EXCEPT ![c] = l]

\* A call ends and its locals with it.
End(c) ==
    /\ Go(c, "idle")
    /\ kind' = [kind EXCEPT ![c] = "plain"]
    /\ want' = [want EXCEPT ![c] = "demo"]
    /\ saved' = [saved EXCEPT ![c] = [env |-> HomeEnv, token |-> None]]

\* What a call sends, and where, matters until it is answered.
Forget(c) == creds' = [creds EXCEPT ![c] = None] /\ url' = [url EXCEPT ![c] = "none"]

Start(c, k, l) ==
    /\ pc[c] = "idle"
    /\ Go(c, l)
    /\ kind' = [kind EXCEPT ![c] = k]
    /\ overlapped' = (overlapped \/ \E d \in Calls : pc[d] # "idle")

-----------------------------------------------------------------------------
(* The SOAP client                                                           *)

\* Faulty variant: the connection is kept when the environment changes.
UpdateKeepingClient(e) == cfg' = EnvOf(e) /\ UNCHANGED client

\* updateConfiguration: a change of environment drops the connection.
UpdateConfiguration(e) ==
    /\ cfg' = EnvOf(e)
    /\ client' = IF cfg = EnvOf(e) THEN client ELSE "none"

\* getHKAClient and initialize: connect unless connected.
Initialize(c, e) ==
    /\ UpdateConfiguration(e)
    /\ \/ client' = "none" /\ Go(c, "connecting") /\ url' = [url EXCEPT ![c] = EnvOf(e)]
       \/ client' # "none" /\ Go(c, "ready") /\ UNCHANGED url

\* invokeWithCredentials up to its first await: inject, and getClient, which
\* initializes, with the HKA_ENV of this moment, when there is no connection.
Invoke(c, k) ==
    /\ injected' = k
    /\ \/ /\ client # "none"
          /\ url' = [url EXCEPT ![c] = client]
          /\ Go(c, "calling")
          /\ UNCHANGED <<cfg, client>>
       \/ /\ client = "none"
          /\ UpdateConfiguration(env)
          /\ url' = [url EXCEPT ![c] = EnvOf(env)]
          /\ Go(c, "reconnecting")

\* createClientAsync answers with a client, or fails and the call with it.
Connected(c) ==
    /\ pc[c] \in {"connecting", "reconnecting"}
    /\ \/ /\ client' = url[c]
          /\ \/ pc[c] = "connecting" /\ Go(c, "ready") /\ url' = [url EXCEPT ![c] = "none"]
             \/ pc[c] = "reconnecting" /\ Go(c, "calling") /\ UNCHANGED url
          /\ UNCHANGED <<injected, creds>>
       \/ /\ Go(c, "answered") /\ Forget(c)
          /\ injected' = IF pc[c] = "reconnecting" THEN None ELSE injected
          /\ UNCHANGED client
    /\ UNCHANGED envVars /\ UNCHANGED <<cfg, kind, want, overlapped>>

\* getCredentials prefers what is injected, by whichever call.
ReadCredentials(c) == creds' = [creds EXCEPT ![c] = IF injected # None THEN injected ELSE cfg']

\* Faulty variant: the credentials are cleared after an answer, not after a failure.
AnswerWithoutFinally(c) ==
    /\ pc[c] = "calling"
    /\ Go(c, "answered") /\ Forget(c)
    /\ injected' = None \/ UNCHANGED injected
    /\ UNCHANGED envVars /\ UNCHANGED <<cfg, client, kind, want, overlapped>>

\* HKA answers, or not; either way the injected credentials are cleared.
Answer(c) ==
    /\ pc[c] = "calling"
    /\ Go(c, "answered") /\ Forget(c)
    /\ injected' = None
    /\ UNCHANGED envVars /\ UNCHANGED <<cfg, client, kind, want, overlapped>>

-----------------------------------------------------------------------------
(* withHKACredentials                                                        *)

\* A tenant has an environment of its own; one that uses the system's credentials gets
\* those of the HKA_ENV that is set when they are resolved.  Either may be demo or prod.
Resolve(c, k) ==
    /\ Start(c, k, "resolved")
    /\ \E e \in Environments : want' = [want EXCEPT ![c] = e]
    /\ UNCHANGED envVars /\ UNCHANGED clientVars /\ UNCHANGED <<creds, url>>

\* Save, set, and run the callback up to its first await.
Enter(c) ==
    /\ pc[c] = "resolved" /\ kind[c] \in {"within", "process"}
    /\ saved' = [saved EXCEPT ![c] = [env |-> env, token |-> token]]
    /\ env' = want[c] /\ token' = c
    /\ stack' = Append(stack, c)
    /\ \/ kind[c] = "within" /\ Initialize(c, want[c]) /\ UNCHANGED injected
       \/ kind[c] = "process" /\ Go(c, "answered") /\ UNCHANGED clientVars /\ UNCHANGED url
    /\ UNCHANGED <<kind, want, creds, crossed, overlapped>>

\* Between the credentials and the call, anularDocumento reads the invoice.
PrepareWithin(c) ==
    /\ pc[c] = "ready" /\ kind[c] = "within"
    /\ Go(c, "armed")
    /\ UNCHANGED clientVars /\ ReadCredentials(c)
    /\ UNCHANGED envVars /\ UNCHANGED <<kind, want, url, overlapped>>

\* Sends what it read, over whatever connection the client has now.
CallArmed(c) ==
    /\ pc[c] = "armed"
    /\ Invoke(c, creds[c])
    /\ UNCHANGED envVars /\ UNCHANGED <<kind, want, creds, overlapped>>

\* The invoice is older than seven days, or cannot be read: the callback throws.
Refuse(c) ==
    /\ pc[c] = "armed" /\ kind[c] = "within"
    /\ Go(c, "answered") /\ Forget(c)
    /\ UNCHANGED envVars /\ UNCHANGED clientVars /\ UNCHANGED <<kind, want, overlapped>>

\* The callback of c is over; it crossed one that runs on if it was not the innermost.
Unstack(c) == \E i \in 1..Len(stack) :
    /\ stack[i] = c
    /\ stack' = RemoveAt(stack, i)
    /\ crossed' = (crossed \/ i # Len(stack))

\* Faulty variant: nothing is restored when the callback ends.
LeaveUnrestored(c) ==
    /\ pc[c] = "answered" /\ kind[c] \in {"within", "process"}
    /\ Unstack(c)
    /\ End(c)
    /\ UNCHANGED clientVars /\ UNCHANGED <<env, token, creds, url, overlapped>>

\* finally: what was found is put back, whoever has entered or left since.
Leave(c) ==
    /\ pc[c] = "answered" /\ kind[c] \in {"within", "process"}
    /\ env' = saved[c].env /\ token' = saved[c].token
    /\ Unstack(c)
    /\ End(c)
    /\ UNCHANGED clientVars /\ UNCHANGED <<creds, url, overlapped>>

-----------------------------------------------------------------------------
(* Calls that leave process.env alone                                        *)

\* The resolved credentials are passed on, their environment is not.
EnterExecute(c) ==
    /\ pc[c] = "resolved" /\ kind[c] = "execute"
    /\ Initialize(c, env)
    /\ creds' = [creds EXCEPT ![c] = c]
    /\ UNCHANGED envVars /\ UNCHANGED <<injected, kind, want, overlapped>>

CallExecute(c) ==
    /\ pc[c] = "ready" /\ kind[c] = "execute"
    /\ Invoke(c, creds[c])
    /\ UNCHANGED envVars /\ UNCHANGED <<kind, want, creds, overlapped>>

\* getHKAClient, which configures a client only when there was one, and getCredentials.
StartPlain(c) ==
    /\ Start(c, "plain", "armed")
    /\ \/ cfg = "none" /\ cfg' = "empty" /\ UNCHANGED client
       \/ cfg # "none" /\ UpdateConfiguration(env)
    /\ ReadCredentials(c)
    /\ UNCHANGED envVars /\ UNCHANGED <<injected, want, url>>

EndCall(c) ==
    /\ pc[c] = "answered" /\ kind[c] \in {"execute", "plain"}
    /\ End(c)
    /\ UNCHANGED <<env, token, stack, crossed>> /\ UNCHANGED clientVars
    /\ UNCHANGED <<creds, url, overlapped>>

Next == \E c \in Calls :
    \/ \E k \in {"within", "process", "execute"} : Resolve(c, k)
    \/ StartPlain(c)
    \/ Enter(c) \/ PrepareWithin(c) \/ CallArmed(c) \/ Refuse(c) \/ Leave(c)
    \/ EnterExecute(c) \/ CallExecute(c) \/ EndCall(c)
    \/ Connected(c) \/ Answer(c)

Spec == Init /\ [][Next]_vars

-----------------------------------------------------------------------------
(* Properties                                                                *)

EnvValues == {"unset", "demo", "prod"}

\* The shape of every variable.
TypeOK ==
    /\ env \in EnvValues /\ token \in Calls \cup {None}
    /\ cfg \in {"none", "empty"} \cup Environments
    /\ client \in {"none"} \cup Environments
    /\ injected \in Calls \cup Environments \cup {"empty", None}
    /\ pc \in [Calls -> {"idle", "resolved", "connecting", "ready", "armed", "reconnecting",
                         "calling", "answered"}]
    /\ kind \in [Calls -> {"within", "process", "execute", "plain"}]
    /\ want \in [Calls -> Environments]
    /\ saved \in [Calls -> [env : EnvValues, token : Calls \cup {None}]]
    /\ creds \in [Calls -> Calls \cup Environments \cup {"empty", None}]
    /\ url \in [Calls -> {"none"} \cup Environments]
    /\ stack \in Seq(Calls) /\ crossed \in BOOLEAN /\ overlapped \in BOOLEAN

\* While callbacks end in the reverse order of their entry, the environment is that of
\* the innermost one, and the process's own again when none is left: it takes two that
\* cross to leave a tenant's credentials behind.
EnvironmentNests ==
    ~crossed =>
        IF stack = <<>> THEN env = HomeEnv /\ token = None
        ELSE env = want[stack[Len(stack)]] /\ token = stack[Len(stack)]

\* A call that was never in flight with another reaches the environment that was resolved
\* for its tenant, with that environment's credentials, whatever calls went before it and
\* however they left the shared client.
OwnEnvironment ==
    \A c \in Calls : ~overlapped /\ pc[c] = "calling" /\ kind[c] = "within" =>
        url[c] = want[c] /\ creds[c] = want[c]

\* No tenant's credentials stay in the client after the last call has ended: injected
\* credentials belong to a time when some call is on the wire.
NothingLeftInjected ==
    injected # None => \E c \in Calls : pc[c] \in {"reconnecting", "calling"}

\* lib/hka/credentials-manager.ts:239: the finally block is guaranteed to restore the
\* credentials, so none are left when no callback runs.
CredentialsRestored == stack = <<>> => env = HomeEnv /\ token = None

=============================================================================
