--------------------------- MODULE ClientRegistry ---------------------------
(***************************************************************************)
(* The C++ client over the C library (aeron-lib/include/wrapper/Aeron.h,   *)
(* and the destinations of Publication.h, ExclusivePublication.h and       *)
(* Subscription.h there): commands that the driver answers later, the      *)
(* registries under m_adminLock in which find... looks for them, the       *)
(* handlers that the conductor thread calls, and the destruction of it     *)
(* all.  The library (aeronc.h) is external: a poll that completes frees   *)
(* the command, adding and removing a handler wait for the conductor, a    *)
(* close calls back when it is done.                                       *)
(***************************************************************************)
EXTENDS Naturals, FiniteSets

CONSTANTS
  Threads,      \* the threads of the application
  Ids,          \* registration ids
  Handlers      \* ids of handlers for counters and for the close of the client

RegistryAssumption ==
  IsFiniteSet(Threads) /\ IsFiniteSet(Ids) /\ "none" \notin Threads

None == "none"

(* What is added, with the same four functions each.  A destination is no  *)
(* object of its own and is never taken out of its registry; the functions *)
(* of a subscription lie in its AsyncAddSubscription.                      *)
Kind(name, owned, held) == [name |-> name, owned |-> owned, held |-> held]
publication == Kind("publication", TRUE, FALSE)
exclusivePublication == Kind("exclusivePublication", TRUE, FALSE)
subscription == Kind("subscription", TRUE, TRUE)
counter == Kind("counter", TRUE, FALSE)
staticCounter == Kind("staticCounter", TRUE, FALSE)
publicationDestination == Kind("publicationDestination", FALSE, FALSE)
exclusiveDestination == Kind("exclusiveDestination", FALSE, FALSE)
subscriptionDestination == Kind("subscriptionDestination", FALSE, FALSE)

Kinds ==
  {publication, exclusivePublication, subscription, counter, staticCounter,
   publicationDestination, exclusiveDestination, subscriptionDestination}
NoKind == Kind(None, FALSE, FALSE)

VARIABLES
  command,      \* per id: the command and how far it is
  pending,      \* the m_pending... maps
  resource,     \* per id: the library's resource
  wrappers,     \* per id: the objects that own the resource
  holder,       \* per id of a subscription: its AsyncAddSubscription
  thread,       \* per thread: where it is
  adminLock,    \* m_adminLock
  stored,       \* the m_...Handlers vectors
  installed,    \* the handlers that the library calls
  conductor,    \* the conductor thread: idle, or what it calls
  client,       \* open, closing, cleared, closed
  told,         \* history: what find said last about an id while its command lived
  again         \* history: the ids whose command was polled after it was freed

vars == <<command, pending, resource, wrappers, holder, thread, adminLock, stored, installed,
          conductor, client, told, again>>

Idle == [pc |-> "idle"]
Free == [calls |-> "nothing"]

Init ==
  /\ command = [i \in Ids |-> [kind |-> NoKind, state |-> None]]
  /\ pending = {} /\ resource = [i \in Ids |-> None] /\ wrappers = [i \in Ids |-> 0]
  /\ holder = [i \in Ids |-> None]
  /\ thread = [t \in Threads |-> Idle] /\ adminLock = None
  /\ stored = {} /\ installed = {} /\ conductor = Free /\ client = "open"
  /\ told = [i \in Ids |-> None] /\ again = {}

-----------------------------------------------------------------------------
(* addXAsync: the library takes the command or refuses it at once (then    *)
(* the call throws, and what addSubscriptionAsync allocated is lost).      *)
addAsync(t, i, k) ==
  /\ client = "open" /\ thread[t] = Idle /\ command[i].kind = NoKind
  /\ \/ /\ command' = [command EXCEPT ![i] = [kind |-> k, state |-> "sent"]]
        /\ thread' = [thread EXCEPT ![t] = [pc |-> "register", id |-> i]]
     \/ /\ command' = [command EXCEPT ![i] = [kind |-> k, state |-> "refused"]]
        /\ UNCHANGED thread
  /\ holder' = [holder EXCEPT ![i] = IF k.held THEN "alive" ELSE None]
  /\ UNCHANGED <<pending, resource, wrappers, adminLock, stored, installed, conductor, client,
                 told, again>>

(* addX: the command gets into its registry; a caller of addXAsync keeps   *)
(* the pointer itself.                                                     *)
register(t) ==
  /\ thread[t].pc = "register" /\ adminLock = None
  /\ pending' = pending \cup {thread[t].id}
  /\ thread' = [thread EXCEPT ![t] = Idle]
  /\ UNCHANGED <<command, resource, wrappers, holder, adminLock, stored, installed, conductor,
                 client, told, again>>

keepPointer(t) ==
  /\ thread[t].pc = "register"
  /\ thread' = [thread EXCEPT ![t] = [pc |-> "poll", id |-> thread[t].id]]
  /\ UNCHANGED <<command, pending, resource, wrappers, holder, adminLock, stored, installed,
                 conductor, client, told, again>>

(* The driver answers: the library has the resource, or the error. *)
answer(i) ==
  /\ client = "open" /\ command[i].state = "sent" /\ conductor = Free
  /\ \/ /\ command' = [command EXCEPT ![i].state = "done"]
        /\ resource' = [resource EXCEPT ![i] =
             IF command[i].kind.owned THEN "open" ELSE None]
     \/ command' = [command EXCEPT ![i].state = "error"] /\ UNCHANGED resource
  /\ UNCHANGED <<pending, wrappers, holder, thread, adminLock, stored, installed, conductor,
                 client, told, again>>

(* aeron_async_..._poll, which frees a completed command, and what it says *)
(* then: anything, if the command was freed already.                       *)
poll(i) ==
  /\ command' = [command EXCEPT ![i].state = IF @ \in {"done", "error"} THEN "freed" ELSE @]
  /\ again' = IF command[i].state = "freed" THEN again \cup {i} ELSE again

Polled(i) ==
  CASE command[i].state = "sent" -> {"null"}
    [] command[i].state = "done" -> {"found"}
    [] command[i].state = "freed" -> {"null", "found", "error"}
    [] OTHER -> {"error"}

Tell(i, what) ==
  told' = [told EXCEPT ![i] = IF command[i].state = "freed" THEN @ ELSE what]

(* Mutant: a command without an answer is taken for a completed one. *)
find_Early(i, says) ==
  /\ poll(i) /\ says \in {"null", "found", "error"}
  /\ wrappers' = [wrappers EXCEPT ![i] =
       @ + IF command[i].state \in {"sent", "done"} /\ command[i].kind.owned THEN 1 ELSE 0]
  /\ told' = [told EXCEPT ![i] = IF command[i].state = "error" THEN "error" ELSE "found"]

(* findX(asyncAddX): nullptr, the resource in a new object, or an          *)
(* exception: that of the command, or of the object, whose resource is     *)
(* lost then.                                                              *)
find(i, says) ==
  /\ poll(i)
  /\ \/ /\ says \in Polled(i) \cap {"null", "error"}
        /\ UNCHANGED wrappers /\ Tell(i, says)
     \/ /\ says = "found" /\ says \in Polled(i)
        /\ wrappers[i] = 0 \/ i \notin again'
        /\ wrappers' = [wrappers EXCEPT ![i] = @ + IF command[i].kind.owned THEN 1 ELSE 0]
        /\ Tell(i, says)
     \/ /\ says = "error" /\ "found" \in Polled(i) /\ command[i].kind.owned
        /\ UNCHANGED wrappers /\ Tell(i, says)

findByPointer(t) ==
  /\ thread[t].pc = "poll"
  /\ \E says \in {"null", "found", "error"} :
       /\ find(thread[t].id, says)
       /\ thread' = [thread EXCEPT ![t] = IF says = "null" THEN @ ELSE Idle]
  /\ UNCHANGED <<pending, resource, holder, adminLock, stored, installed, conductor, client>>

(* What is taken out of the registry when an id is found. *)
Erased(i, says) == IF says = "found" /\ command[i].kind.owned THEN {i} ELSE {}

Unknown(i) ==
  /\ told' = [told EXCEPT ![i] = IF @ = None THEN "unknown" ELSE @]
  /\ UNCHANGED <<command, wrappers, again, pending>>

(* findX(registrationId), findDestinationResponse(correlationId).  An      *)
(* unknown id throws; an id whose command failed, or whose object did,     *)
(* stays in the registry with its freed command, and so does every         *)
(* destination.                                                            *)
findById(t, i) ==
  /\ client = "open" /\ thread[t] = Idle /\ adminLock = None
  /\ IF i \in pending
     THEN \E says \in {"null", "found", "error"} :
            find(i, says) /\ pending' = pending \ Erased(i, says)
     ELSE Unknown(i)
  /\ UNCHANGED <<resource, holder, thread, adminLock, stored, installed, conductor, client>>

-----------------------------------------------------------------------------

(* ~Publication, ~ExclusivePublication, ~Subscription, ~Counter: the       *)
(* library is asked to close.                                              *)
destroy(t, i) ==
  /\ thread[t] = Idle /\ wrappers[i] > 0
  /\ wrappers' = [wrappers EXCEPT ![i] = @ - 1]
  /\ resource' = [resource EXCEPT ![i] = "closing"]
  /\ UNCHANGED <<command, pending, holder, thread, adminLock, stored, installed, conductor,
                 client, told, again>>

(* The conductor closes and frees the resource, then AsyncAddSubscription::remove. *)
closed(i) ==
  /\ client = "open" /\ conductor = Free /\ resource[i] = "closing"
  /\ resource' = [resource EXCEPT ![i] = "freed"]
  /\ holder' = [holder EXCEPT ![i] = IF @ = "alive" THEN "deleted" ELSE @]
  /\ UNCHANGED <<command, pending, wrappers, thread, adminLock, stored, installed, conductor,
                 client, told, again>>

(* onAvailableImageCallback, onUnavailableImageCallback: the functions are *)
(* those in the AsyncAddSubscription, from the driver's answer on.         *)
imageCallback(i) ==
  /\ client \in {"open", "closing"} /\ conductor = Free
  /\ command[i].kind.held /\ resource[i] \in {"open", "closing"}
  /\ conductor' = [calls |-> "image", id |-> i]
  /\ UNCHANGED <<command, pending, resource, wrappers, holder, thread, adminLock, stored,
                 installed, client, told, again>>

(* onAvailableCounterCallback, onUnavailableCounterCallback,               *)
(* onCloseClientCallback.                                                  *)
handlerCallback(h) ==
  /\ client \in {"open", "closing"} /\ conductor = Free /\ h \in installed
  /\ conductor' = [calls |-> "handler", id |-> h]
  /\ UNCHANGED <<command, pending, resource, wrappers, holder, thread, adminLock, stored,
                 installed, client, told, again>>

callbackReturns ==
  /\ conductor # Free /\ conductor' = Free
  /\ UNCHANGED <<command, pending, resource, wrappers, holder, thread, adminLock, stored,
                 installed, client, told, again>>

-----------------------------------------------------------------------------
(* addAvailableCounterHandler, addUnavailableCounterHandler,               *)
(* addCloseClientHandler: the function is stored, then the library waits   *)
(* for its conductor, all under the lock; after an error it stays stored.  *)
addHandler(t, h) ==
  /\ client = "open" /\ thread[t] = Idle /\ adminLock = None /\ h \notin stored
  /\ adminLock' = t /\ stored' = stored \cup {h}
  /\ thread' = [thread EXCEPT ![t] = [pc |-> "adding", id |-> h]]
  /\ UNCHANGED <<command, pending, resource, wrappers, holder, installed, conductor, client,
                 told, again>>

(* Mutant: the lock is not given back when the library reports an error. *)
handlerAdded_KeepsLock(t) ==
  /\ thread[t].pc = "adding" /\ conductor = Free
  /\ \/ installed' = installed \cup {thread[t].id} /\ adminLock' = None
     \/ UNCHANGED <<installed, adminLock>>
  /\ thread' = [thread EXCEPT ![t] = Idle]
  /\ UNCHANGED <<command, pending, resource, wrappers, holder, stored, conductor, client, told,
                 again>>

handlerAdded(t) ==
  /\ thread[t].pc = "adding" /\ conductor = Free
  /\ \/ installed' = installed \cup {thread[t].id}
     \/ UNCHANGED installed
  /\ thread' = [thread EXCEPT ![t] = Idle] /\ adminLock' = None
  /\ UNCHANGED <<command, pending, resource, wrappers, holder, stored, conductor, client, told,
                 again>>

removeHandler(t, h) ==
  /\ client = "open" /\ thread[t] = Idle /\ adminLock = None /\ h \in stored
  /\ adminLock' = t
  /\ thread' = [thread EXCEPT ![t] = [pc |-> "removing", id |-> h]]
  /\ UNCHANGED <<command, pending, resource, wrappers, holder, stored, installed, conductor,
                 client, told, again>>

handlerRemoved(t) ==
  /\ thread[t].pc = "removing" /\ conductor = Free
  /\ \/ installed' = installed \ {thread[t].id} /\ stored' = stored \ {thread[t].id}
     \/ UNCHANGED <<installed, stored>>
  /\ thread' = [thread EXCEPT ![t] = Idle] /\ adminLock' = None
  /\ UNCHANGED <<command, pending, resource, wrappers, holder, conductor, client, told, again>>

(* ~Aeron, once no thread is in a call and the objects are gone:           *)
(* aeron_close ends the conductor, then the handlers are cleared.          *)
closeClient ==
  /\ client = "open" /\ (\A t \in Threads : thread[t] = Idle) /\ \A i \in Ids : wrappers[i] = 0
  /\ client' = "closing"
  /\ UNCHANGED <<command, pending, resource, wrappers, holder, thread, adminLock, stored,
                 installed, conductor, told, again>>

(* aeron_close frees the commands and the resources, and completes the     *)
(* closes that are under way.                                              *)
conductorEnds ==
  /\ client = "closing" /\ conductor = Free
  /\ client' = "closed"
  /\ command' = [i \in Ids |-> [command[i] EXCEPT !.state = IF @ = None THEN @ ELSE "freed"]]
  /\ holder' = [i \in Ids |-> IF resource[i] = "closing" /\ holder[i] = "alive"
                              THEN "deleted" ELSE holder[i]]
  /\ resource' = [i \in Ids |-> IF resource[i] = None THEN None ELSE "freed"]
  /\ installed' = {} /\ stored' = {}
  /\ UNCHANGED <<pending, wrappers, thread, adminLock, conductor, told, again>>

-----------------------------------------------------------------------------
Application(t) ==
  \/ \E i \in Ids, k \in Kinds : addAsync(t, i, k)
  \/ \E i \in Ids : findById(t, i) \/ destroy(t, i)
  \/ \E h \in Handlers : addHandler(t, h) \/ removeHandler(t, h)

InCall(t) ==
  register(t) \/ keepPointer(t) \/ findByPointer(t) \/ handlerAdded(t) \/ handlerRemoved(t)

Conductor ==
  \/ \E i \in Ids : answer(i) \/ closed(i) \/ imageCallback(i)
  \/ \E h \in Handlers : handlerCallback(h)

Next ==
  \/ \E t \in Threads : Application(t) \/ InCall(t)
  \/ Conductor \/ callbackReturns \/ closeClient \/ conductorEnds

Spec == Init /\ [][Next]_vars

-----------------------------------------------------------------------------
(* A command is polled after the poll that completed and freed it only for *)
(* an id of which the caller was told so: an exception, or the answer for  *)
(* a destination (findX, findDestinationResponse).  An id that was found   *)
(* is not polled again, whichever threads ask for it.                      *)
NoPollAfterFree ==
  \A i \in again : told[i] = "error" \/ (told[i] = "found" /\ ~command[i].kind.owned)

(* No find polls a freed command, whatever the caller was told.            *)
NeverPolledAgain == again = {}

(* A resource of the library has at most one object that will close it,    *)
(* although every thread may ask for the id (Aeron::findX), until a freed  *)
(* command is polled.                                                      *)
OneOwner ==
  \A i \in Ids \ again : wrappers[i] <= 1 /\ (wrappers[i] = 1 => resource[i] = "open")

(* What the conductor thread calls is alive: the functions of a            *)
(* subscription until it is closed, a handler until it is removed          *)
(* (AsyncAddSubscription::remove, remove...Handler, ~Aeron).               *)
CallbacksAlive ==
  conductor # Free =>
    IF conductor.calls = "image" THEN conductor.id \in again \/ holder[conductor.id] = "alive"
    ELSE conductor.id \in stored

(* The comment on findPublication: "If the registrationId is unknown, then *)
(* a nullptr is returned."                                                 *)
UnknownIsNull == \A i \in Ids : told[i] # "unknown"
=============================================================================
