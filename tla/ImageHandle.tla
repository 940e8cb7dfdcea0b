----------------------------- MODULE ImageHandle -----------------------------
(***************************************************************************)
(* The Image objects of the wrapper (wrapper/Image.h), which retain an     *)
(* image of the C library as long as they live, unless they are copies,    *)
(* and the members of wrapper/Subscription.h that make them.  One thread   *)
(* of the application uses the subscription and the objects; the client's  *)
(* conductor, in another, makes images available and unavailable and frees *)
(* those that nobody retains.                                              *)
(***************************************************************************)
EXTENDS Integers, FiniteSets

CONSTANTS
  Images,     \* the images of the C library
  Objects,    \* the Image objects of the application
  MaxCopies   \* bound: copies of the objects of one image

HandleAssumption ==
  IsFiniteSet(Images) /\ IsFiniteSet(Objects) /\ "none" \notin Images /\ MaxCopies \in Nat

None == "none"

VARIABLES
  phase,     \* per image: "new", "available", "unavailable" or "freed"
  refs,      \* per image: how often the application retains it
  object,    \* per object: its m_image, or None
  call,      \* what the application's thread is doing
  used,      \* the image that was passed to the library last, and its phase
  closed,    \* whether the Subscription was destroyed
  copied     \* history: per image, how often an object of it was copied

vars == <<phase, refs, object, call, used, closed, copied>>

Idle == [op |-> "idle"]
Available == { i \in Images : phase[i] = "available" }

Init ==
  /\ phase = [i \in Images |-> "new"] /\ refs = [i \in Images |-> 0]
  /\ object = [o \in Objects |-> None]
  /\ call = Idle /\ used = [image |-> None, phase |-> "new"] /\ closed = FALSE
  /\ copied = [i \in Images |-> 0]

Use(i) == used' = [image |-> i, phase |-> phase[i]]

(***************************************************************************)
(* The C library's conductor.  The images of the list that a call of the   *)
(* subscription goes through are not freed before the call is over.        *)
(***************************************************************************)
available(i) ==
  /\ ~closed /\ phase[i] = "new"
  /\ phase' = [phase EXCEPT ![i] = "available"]
  /\ UNCHANGED <<refs, object, call, used, closed, copied>>

unavailable(i) ==
  /\ phase[i] = "available"
  /\ phase' = [phase EXCEPT ![i] = "unavailable"]
  /\ UNCHANGED <<refs, object, call, used, closed, copied>>

InCall(i) == "images" \in DOMAIN call /\ i \in call.images

reclaim(i) ==
  /\ phase[i] = "unavailable" /\ refs[i] <= 0 /\ ~InCall(i)
  /\ phase' = [phase EXCEPT ![i] = "freed"]
  /\ UNCHANGED <<refs, object, call, used, closed, copied>>

(***************************************************************************)
(* The Image object.                                                       *)
(***************************************************************************)
retain(i) == [refs EXCEPT ![i] = @ + 1]
release(i) == [refs EXCEPT ![i] = @ - 1]

Constructed(o, i) ==
  /\ object[o] = None
  /\ object' = [object EXCEPT ![o] = i]
  /\ refs' = retain(i)

destroy_Kept(o) == \* Mutant: the image is not released
  /\ call = Idle /\ object[o] # None
  /\ object' = [object EXCEPT ![o] = None] /\ Use(object[o])
  /\ UNCHANGED <<phase, refs, call, closed, copied>>

destroy(o) ==
  /\ call = Idle /\ object[o] # None
  /\ object' = [object EXCEPT ![o] = None]
  /\ refs' = release(object[o]) /\ Use(object[o])
  /\ UNCHANGED <<phase, call, closed, copied>>

(* The implicit copy constructor copies the pointers and retains nothing;  *)
(* the destructor of the copy releases.  A move is such a copy.            *)
copy(o, p) ==
  /\ call = Idle /\ object[o] # None /\ object[p] = None /\ copied[object[o]] < MaxCopies
  /\ object' = [object EXCEPT ![p] = object[o]]
  /\ copied' = [copied EXCEPT ![object[o]] = @ + 1]
  /\ UNCHANGED <<phase, refs, call, used, closed>>

(* A member that passes m_image to the C library. *)
member(o) ==
  /\ call = Idle /\ object[o] # None
  /\ Use(object[o])
  /\ UNCHANGED <<phase, refs, object, call, closed, copied>>

(* A poll of the image is in the C library while its handler runs.         *)
beginPoll(o) ==
  /\ call = Idle /\ object[o] # None
  /\ Use(object[o])
  /\ call' = [op |-> "poll", object |-> o]
  /\ UNCHANGED <<phase, refs, object, closed, copied>>

endPoll ==
  /\ call.op = "poll"
  /\ Use(object[call.object])
  /\ call' = Idle
  /\ UNCHANGED <<phase, refs, object, closed, copied>>

(***************************************************************************)
(* The Subscription.                                                       *)
(***************************************************************************)
(* imageBySessionId and imageByIndex: the library retains the image that   *)
(* it returns; nullptr and an index out of range change nothing.           *)
imageBySessionId(i) ==
  /\ call = Idle /\ ~closed /\ i \in Available
  /\ refs' = retain(i)
  /\ call' = [op |-> "createImage", image |-> i]
  /\ UNCHANGED <<phase, object, used, closed, copied>>

createImage(o) ==
  /\ call.op = "createImage"
  /\ Constructed(o, call.image)
  /\ call' = [op |-> "created", image |-> call.image]
  /\ UNCHANGED <<phase, used, closed, copied>>

(* make_shared, or the string in the constructor, has no memory: the       *)
(* object retains nothing yet, and the catch releases the library's.       *)
createImageThrows ==
  /\ call.op = "createImage"
  /\ refs' = release(call.image)
  /\ call' = Idle
  /\ UNCHANGED <<phase, object, used, closed, copied>>

createImageReturns ==
  /\ call.op = "created"
  /\ refs' = release(call.image)
  /\ call' = Idle
  /\ UNCHANGED <<phase, object, used, closed, copied>>

(* copyOfImageList makes an object for each image of the list. *)
copyOfImageList ==
  /\ call = Idle /\ ~closed /\ Available # {}
  /\ call' = [op |-> "list", images |-> Available, todo |-> Available]
  /\ UNCHANGED <<phase, refs, object, used, closed, copied>>

copyToVector(o) ==
  /\ call.op = "list"
  /\ \E i \in call.todo :
       /\ Constructed(o, i)
       /\ call' = [call EXCEPT !.todo = @ \ {i}]
  /\ UNCHANGED <<phase, used, closed, copied>>

copyOfImageListReturns ==
  /\ call.op = "list" /\ (call.todo = {} \/ \A o \in Objects : object[o] # None)
  /\ call' = Idle
  /\ UNCHANGED <<phase, refs, object, used, closed, copied>>

(* poll, controlledPoll and blockPoll of the subscription, over its list.  *)
beginPollAll ==
  /\ call = Idle /\ ~closed /\ Available # {}
  /\ call' = [op |-> "pollAll", images |-> Available]
  /\ UNCHANGED <<phase, refs, object, used, closed, copied>>

endPollAll ==
  /\ call.op = "pollAll"
  /\ \E i \in call.images : Use(i)
  /\ call' = Idle
  /\ UNCHANGED <<phase, refs, object, closed, copied>>

(* The destructor: the library takes the images of the subscription away.  *)
close ==
  /\ call = Idle /\ ~closed
  /\ closed' = TRUE
  /\ phase' = [i \in Images |-> IF phase[i] = "available" THEN "unavailable" ELSE phase[i]]
  /\ UNCHANGED <<refs, object, call, used, copied>>

Next ==
  \/ \E i \in Images : available(i) \/ unavailable(i) \/ reclaim(i) \/ imageBySessionId(i)
  \/ \E o \in Objects :
       \/ destroy(o) \/ member(o) \/ beginPoll(o) \/ createImage(o) \/ copyToVector(o)
       \/ \E p \in Objects : copy(o, p)
  \/ endPoll \/ createImageThrows \/ createImageReturns \/ copyOfImageList
  \/ copyOfImageListReturns \/ beginPollAll \/ endPollAll \/ close

Spec == Init /\ [][Next]_vars

-----------------------------------------------------------------------------
(* No member of an Image object, and no poll that is under way, passes an  *)
(* image to the library that the conductor has freed, if no object of the  *)
(* image was copied.                                                       *)
NoUseAfterFree ==
  /\ used.phase = "freed" => copied[used.image] > 0
  /\ \A o \in Objects : object[o] # None /\ phase[object[o]] = "freed" => copied[object[o]] > 0

(* "A retain call must have a corresponding release call" (aeronc.h): an   *)
(* image is retained once for each object, and once more while             *)
(* createImage has the library's, until an object of it is copied.         *)
RetainedOncePerObject ==
  \A i \in Images :
    copied[i] = 0 =>
      refs[i] = Cardinality({ o \in Objects : object[o] = i })
                + (IF "image" \in DOMAIN call /\ call.image = i THEN 1 ELSE 0)

(* "can be effectively copied and moved": a copy is as good as the object. *)
CopiesAreSafe == used.phase # "freed"
=============================================================================
