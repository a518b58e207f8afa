--------------------------- MODULE RtmpSessionProofs ---------------------------
(***************************************************************************)
(* The attempts to set up a session, for every number of them: what is     *)
(* released, what leaks, and that the session is the one PushRtmp is       *)
(* modelled with.                                                          *)
(***************************************************************************)
EXTENDS RtmpSession, TLAPS

USE MaxAttemptsIsNumber DEF NULL, Garbage

TypeInv == TypeOK /\ (at # "idle" => attempt >= 1)

LEMMA TypeInit == Init => TypeInv
<1> SUFFICES ASSUME Init PROVE TypeInv
  OBVIOUS
<1>1. up \in BOOLEAN /\ status \in BOOLEAN /\ api \in BOOLEAN
  BY Zenon DEF Init
<1>2. ptr \in [Kinds -> {Garbage} \cup 0 .. attempt]
  BY DEF Init
<1>3. QED
  BY <1>1, <1>2 DEF Init, TypeInv, TypeOK

LEMMA ReleaseKeepsTypes ==
  ASSUME TypeOK, NEW K \in SUBSET Kinds, Release(K)
  PROVE  live' \subseteq live /\ misused' \subseteq Kinds \X ({Garbage} \cup 1 .. attempt)
<1>1. Pointed(K) \subseteq Kinds \X ({Garbage} \cup 1 .. attempt)
  BY DEF Pointed, TypeOK
<1>2. QED
  BY <1>1 DEF Release, TypeOK

LEMMA TypeStep == TypeInv /\ [Next]_vars => TypeInv'
<1> SUFFICES ASSUME TypeInv, [Next]_vars PROVE TypeInv'
  OBVIOUS
<1> USE DEF TypeInv, TypeOK
<1>a. {"group", "muxer", "idle", "cleanup", "deleted", "dead", "stream", "sps", "io", "header"}
        \subseteq EncoderCalls \cup FormatCalls \cup {"idle", "cleanup", "deleted", "dead"}
  BY DEF EncoderCalls, EncoderKinds, FormatCalls
<1>b. EncoderKinds \subseteq Kinds /\ {"muxer", "codec", "io", "header"} \subseteq Kinds
  BY DEF Kinds, FormatKinds
<1>c. \A k \in Kinds, v \in {NULL, attempt} :
        [ptr EXCEPT ![k] = v] \in [Kinds -> {Garbage} \cup 0 .. attempt]
  OBVIOUS
<1>1. CASE BeginInit
  BY <1>1, <1>a DEF BeginInit
<1>2. ASSUME NEW k \in EncoderKinds, Creates(k) PROVE TypeInv'
  <2>1. attempt \in 1 .. attempt /\ at # "idle" /\ at \in EncoderKinds
    BY <1>2 DEF Creates, EncoderKinds
  <2>2. at' \in EncoderCalls /\ at' # "idle"
    BY <1>2 DEF Creates, Following, EncoderKinds, EncoderCalls
  <2>3. api' \in BOOLEAN
    BY <1>2, Zenon DEF Creates
  <2>4. ptr' \in [Kinds -> {Garbage} \cup 0 .. attempt]
    BY <1>2, <1>b DEF Creates
  <2>5. live' \subseteq Kinds \X (1 .. attempt)
    BY <1>2, <1>b, <2>1 DEF Creates
  <2>6. QED
    BY <1>2, <2>1, <2>2, <2>3, <2>4, <2>5 DEF Creates
<1>3. ASSUME NEW call \in {"mpp_init", "setup"}, Configures(call) PROVE TypeInv'
  <2>1. attempt \in 1 .. attempt
    BY <1>3 DEF Configures
  <2>2. at' \in {"config", "muxer"}
    BY <1>3 DEF Configures, Following
  <2>3. at' \in EncoderCalls \cup FormatCalls /\ at' # "idle"
    BY <2>2 DEF EncoderCalls, FormatCalls, EncoderKinds
  <2>4. good' \subseteq 1 .. attempt
    BY <1>3, <2>1 DEF Configures
  <2>5. QED
    BY <1>3, <2>1, <2>3, <2>4 DEF Configures
<1>4. ASSUME NEW call \in EncoderCalls, EncoderFails(call) PROVE TypeInv'
  <2>1. api' \in BOOLEAN
    BY <1>4, Zenon DEF EncoderFails
  <2>2. ptr' \in [Kinds -> {Garbage} \cup 0 .. attempt]
    BY <1>4 DEF EncoderFails
  <2>3. attempt >= 1
    BY <1>4 DEF EncoderFails, EncoderCalls, EncoderKinds
  <2>4. QED
    BY <1>4, <1>a, <2>1, <2>2, <2>3 DEF EncoderFails
<1>5. CASE Cleanup
  <2>1. live' \subseteq live /\ misused' \subseteq Kinds \X ({Garbage} \cup 1 .. attempt)
    BY <1>5, <1>b, ReleaseKeepsTypes DEF Cleanup, EncoderKinds
  <2>2. ptr' \in [Kinds -> {Garbage} \cup 0 .. attempt]
    BY <1>5, <1>b, <1>c DEF Cleanup, EncoderKinds
  <2>3. QED
    BY <1>5, <1>a, <2>1, <2>2 DEF Cleanup
<1>6. CASE Dies
  BY <1>6, <1>a DEF Dies
<1>7. CASE AllocatesMuxer
  <2>1. attempt \in 1 .. attempt /\ ptr' \in [Kinds -> {Garbage} \cup 0 .. attempt]
    BY <1>7 DEF AllocatesMuxer, WithMuxer
  <2>2. QED
    BY <1>7, <1>a, <1>b, <2>1 DEF AllocatesMuxer
<1>8. CASE NoMuxer
  <2>1. ptr' \in [Kinds -> {Garbage} \cup 0 .. attempt]
    BY <1>8 DEF NoMuxer, WithMuxer
  <2>2. QED
    BY <1>8, <1>a, <2>1 DEF NoMuxer, Returns
<1>9. CASE AddsStream
  <2>1. attempt \in 1 .. attempt
    BY <1>9 DEF AddsStream
  <2>2. QED
    BY <1>9, <1>a, <1>b, <2>1 DEF AddsStream
<1>10. CASE GetsSps
  <2>1. ptr' \in [Kinds -> {Garbage} \cup 0 .. attempt]
    BY <1>10, <1>b, <1>c DEF GetsSps
  <2>2. QED
    BY <1>10, <1>a, <2>1 DEF GetsSps
<1>11. CASE OpensIo
  <2>1. attempt \in 1 .. attempt
    BY <1>11 DEF OpensIo
  <2>2. up' \in BOOLEAN
    BY <1>11, Zenon DEF OpensIo
  <2>3. ptr' \in [Kinds -> {Garbage} \cup 0 .. attempt]
    BY <1>11, <1>b, <1>c DEF OpensIo
  <2>4. QED
    BY <1>11, <1>a, <1>b, <2>1, <2>2, <2>3 DEF OpensIo
<1>12. CASE WritesHeader
  <2>1. attempt \in 1 .. attempt
    BY <1>12 DEF WritesHeader
  <2>2. status' \in BOOLEAN
    BY <1>12, Zenon DEF WritesHeader
  <2>3. ptr' \in [Kinds -> {Garbage} \cup 0 .. attempt]
    BY <1>12, <1>b, <1>c DEF WritesHeader
  <2>4. QED
    BY <1>12, <1>a, <1>b, <2>1, <2>2, <2>3 DEF WritesHeader, Returns
<1>13. ASSUME NEW call \in FormatCalls, FormatFails(call) PROVE TypeInv'
  BY <1>13, <1>a DEF FormatFails, Returns
<1>14. CASE GiveUp
  <2>1. live' \subseteq live /\ misused' \subseteq Kinds \X ({Garbage} \cup 1 .. attempt)
    BY <1>14, <1>b, ReleaseKeepsTypes DEF GiveUp
  <2>2. status' \in BOOLEAN
    BY <1>14, Zenon DEF GiveUp
  <2>3. QED
    BY <1>14, <1>a, <2>1, <2>2 DEF GiveUp, Returns
<1>15. CASE LinkChanges
  <2>1. link' \in BOOLEAN /\ up' \in BOOLEAN
    BY <1>15, Zenon DEF LinkChanges
  <2>2. QED
    BY <1>15, <2>1 DEF LinkChanges
<1>16. CASE Delete
  <2>1. live' \subseteq live /\ misused' \subseteq Kinds \X ({Garbage} \cup 1 .. attempt)
    BY <1>16, <1>b, ReleaseKeepsTypes DEF Delete
  <2>2. QED
    BY <1>16, <1>a, <2>1 DEF Delete
<1>17. CASE UNCHANGED vars
  BY <1>17 DEF vars
<1>18. QED
  BY <1>1, <1>2, <1>3, <1>4, <1>5, <1>6, <1>7, <1>8, <1>9, <1>10, <1>11,
     <1>12, <1>13, <1>14, <1>15, <1>16, <1>17 DEF Next, EncoderStep, FormatStep

LEMMA TypeInvariant == Spec => []TypeInv
<1>1. QED
  BY TypeInit, TypeStep, PTL DEF Spec

-----------------------------------------------------------------------------
(* What an attempt has made so far.                                        *)

(* The encoder's calls that come before, or are, the one that creates k.   *)
Todo(k) ==
  CASE k = "group"   -> {"group"}
    [] k = "frame"   -> {"group", "frame"}
    [] k = "packet"  -> {"group", "frame", "packet"}
    [] k = "context" -> {"group", "frame", "packet", "context"}
    [] k = "config"  -> {"group", "frame", "packet", "context", "mpp_init", "config"}

Own(k) == ptr[k] = attempt /\ <<k, attempt>> \in live

(* An attempt proceeds in order: what it has passed it owns.  From the end *)
(* of the encoder's init on it has all of the encoder or no context, and   *)
(* past getSpsInfo all of it.                                              *)
InOrder ==
  /\ at \in EncoderCalls =>
       \A k \in EncoderKinds : IF at \in Todo(k) THEN <<k, attempt>> \notin live ELSE Own(k)
  /\ at \in {"muxer", "stream", "sps"} => ptr["context"] = NULL \/ \A k \in EncoderKinds : Own(k)
  /\ at \in {"io", "header"} => \A k \in EncoderKinds : Own(k)
  /\ at \in {"stream", "sps", "io", "header"} => Own("muxer")
  /\ at = "sps" => <<"codec", attempt>> \in live
  /\ at \in {"io", "header"} => Own("codec")
  /\ at = "header" => Own("io")

(* The encoder's pointers point to what lives, and to all that the last    *)
(* attempt has created.                                                    *)
Tracked ==
  at # "deleted" =>
    \A k \in EncoderKinds :
      /\ ptr[k] \in {NULL, Garbage} \/ IsLive(k)
      /\ <<k, attempt>> \in live => ptr[k] = attempt
      /\ good # {} => ptr[k] # Garbage

(* A context of an attempt whose init has not succeeded is the one         *)
(* mMppCtx points to.                                                      *)
ContextsGood ==
  \A n \in 1 .. attempt : <<"context", n>> \in live =>
    \/ n \in good
    \/ n = attempt /\ at \in {"mpp_init", "config", "setup", "cleanup", "dead"}

StatusInv == status => at \in {"idle", "deleted"}

SessionInv ==
  /\ InOrder /\ Tracked /\ ContextsGood /\ StatusInv
  /\ SessionFromOneAttempt /\ ContextsFreed /\ EncoderDeleted

LEMMA SessionInit == Init => SessionInv
<1> SUFFICES ASSUME Init PROVE SessionInv
  OBVIOUS
<1>1. at = "idle" /\ status = FALSE /\ live = {} /\ good = {} /\ attempt = 0
  BY DEF Init
<1>2. \A k \in EncoderKinds : ptr[k] \in {NULL, Garbage}
  BY DEF Init, Kinds
<1>3. QED
  BY <1>1, <1>2 DEF SessionInv, InOrder, Tracked, ContextsGood, StatusInv,
     SessionFromOneAttempt, ContextsFreed, EncoderDeleted, EncoderCalls, EncoderKinds

(* One step per action: the pieces of the invariant it can disturb, from   *)
(* what it does to the pointers and to the resources behind them.          *)
LEMMA SessionStep == TypeInv /\ SessionInv /\ [Next]_vars => SessionInv'
<1> SUFFICES ASSUME TypeInv, SessionInv, [Next]_vars PROVE SessionInv'
  OBVIOUS
<1>t. /\ attempt \in Nat /\ ptr \in [Kinds -> {Garbage} \cup 0 .. attempt]
      /\ live \subseteq Kinds \X (1 .. attempt) /\ good \subseteq 1 .. attempt
      /\ at # "idle" => attempt >= 1
  BY DEF TypeInv, TypeOK
<1>k. /\ EncoderKinds \subseteq Kinds /\ {"muxer", "codec", "io", "header"} \subseteq Kinds
      /\ "context" \in EncoderKinds
      /\ {"muxer", "codec", "io", "header"} \cap EncoderKinds = {}
  BY DEF Kinds, FormatKinds, EncoderKinds
<1> USE DEF SessionInv, StatusInv, SessionFromOneAttempt, ContextsFreed, EncoderDeleted,
            ContextsGood, InOrder, Tracked, Own, IsLive, Idle
<1>1. CASE BeginInit
  <2>1. /\ at' = "group" /\ attempt' = attempt + 1 /\ status = FALSE /\ at = "idle"
        /\ UNCHANGED <<link, up, status, ptr, api, live, misused, good, shown>>
    BY <1>1, <1>t DEF BeginInit, TypeInv, TypeOK
  <2>2. \A k \in Kinds : <<k, attempt + 1>> \notin live
    BY <1>t
  <2>3. \A k \in EncoderKinds : "group" \in Todo(k)
    BY DEF Todo, EncoderKinds
  <2>4. QED
    BY <2>1, <2>2, <2>3, <1>t, <1>k
<1>2. ASSUME NEW k \in EncoderKinds, Creates(k) PROVE SessionInv'
  <2>1. /\ at = k /\ at' = Following[k] /\ at' \in EncoderCalls
        /\ ptr' = [ptr EXCEPT ![k] = attempt] /\ live' = live \cup {<<k, attempt>>}
        /\ UNCHANGED <<status, attempt, misused, good>>
    BY <1>2 DEF Creates, Following, EncoderKinds, EncoderCalls
  <2>2. \A j \in EncoderKinds : at' \in Todo(j) <=> at \in Todo(j) /\ j # k
    BY <2>1 DEF Todo, Following, EncoderKinds
  <2>3. at \in EncoderCalls /\ at \in Todo(k) /\ at \notin {"idle", "deleted"}
    BY <2>1 DEF Todo, EncoderKinds, EncoderCalls
  <2>4. /\ ptr'[k] = attempt /\ <<k, attempt>> \in live'
        /\ \A j \in EncoderKinds \ {k} :
             ptr'[j] = ptr[j] /\ \A n \in Int : <<j, n>> \in live' <=> <<j, n>> \in live
    BY <2>1, <1>t, <1>k
  <2>5. InOrder'
    BY <2>1, <2>2, <2>3, <2>4, <1>t DEF EncoderCalls, EncoderKinds
  <2>6. Tracked'
    BY <2>1, <2>3, <2>4, <1>t
  <2>7. ContextsGood'
    <3>1. CASE k = "context"
      BY <3>1, <2>1, <2>3, <1>t DEF Following
    <3>2. CASE k # "context"
      <4>1. at = "config" => at' = "setup"
        BY <2>1 DEF Following
      <4>2. QED
        BY <3>2, <4>1, <2>1, <2>3, <2>4, <1>t, <1>k DEF EncoderKinds
    <3>3. QED
      BY <3>1, <3>2
  <2>8. ~status /\ at' \notin {"idle", "deleted"}
    BY <2>1, <2>3 DEF EncoderCalls, EncoderKinds
  <2>9. QED
    BY <2>1, <2>5, <2>6, <2>7, <2>8
<1>3. ASSUME NEW call \in {"mpp_init", "setup"}, Configures(call) PROVE SessionInv'
  <2>1. /\ at = call /\ UNCHANGED <<status, attempt, ptr, misused, live>>
        /\ good' = IF call = "setup" THEN good \cup {attempt} ELSE good
    BY <1>3 DEF Configures
  <2>2. ~status
    BY <2>1
  <2>3. CASE call = "mpp_init"
    <3>1. at' = "config"
      BY <1>3, <2>3 DEF Configures, Following
    <3>2. \A k \in EncoderKinds : "config" \in Todo(k) <=> "mpp_init" \in Todo(k)
      BY DEF Todo, EncoderKinds
    <3>3. QED
      BY <2>1, <2>2, <2>3, <3>1, <3>2, <1>t DEF EncoderCalls, EncoderKinds
  <2>4. CASE call = "setup"
    <3>1. at' = "muxer"
      BY <1>3, <2>4 DEF Configures, Following
    <3>2. \A k \in EncoderKinds : "setup" \notin Todo(k)
      BY DEF Todo, EncoderKinds
    <3>3. \A k \in EncoderKinds : Own(k)
      BY <2>1, <2>4, <3>2 DEF EncoderCalls
    <3>4. good' = good \cup {attempt} /\ attempt # Garbage
      BY <2>1, <2>4, <1>t
    <3>5. InOrder'
      BY <2>1, <3>1, <3>3 DEF EncoderCalls, EncoderKinds
    <3>6. Tracked'
      BY <2>1, <3>1, <3>3, <3>4
    <3>7. ContextsGood'
      BY <2>1, <3>4, <1>t
    <3>8. QED
      BY <2>1, <2>2, <3>1, <3>5, <3>6, <3>7
  <2>5. QED
    BY <2>3, <2>4
<1>4. ASSUME NEW call \in EncoderCalls, EncoderFails(call) PROVE SessionInv'
  <2>1. /\ at = call /\ at' = "cleanup" /\ UNCHANGED <<status, attempt, good, misused, live>>
        /\ at \in EncoderCalls
    BY <1>4 DEF EncoderFails
  <2>2. ~status
    BY <2>1 DEF EncoderCalls, EncoderKinds
  <2>3. \A k \in EncoderKinds : ptr'[k] = ptr[k] \/ (k = call /\ ptr'[k] = NULL)
    BY <1>4, <1>t, <1>k DEF EncoderFails
  <2>4. \A k \in EncoderKinds : k = call => <<k, attempt>> \notin live
    <3>1. \A k \in EncoderKinds : k \in Todo(k)
      BY DEF Todo, EncoderKinds
    <3>2. QED
      BY <2>1, <3>1
  <2>5. Tracked'
    BY <2>1, <2>3, <2>4 DEF EncoderCalls, EncoderKinds
  <2>6. ContextsGood'
    BY <2>1
  <2>7. QED
    BY <2>1, <2>2, <2>5, <2>6 DEF EncoderCalls, EncoderKinds
<1>5. CASE Cleanup
  <2>1. /\ at = "cleanup" /\ at' = "muxer" /\ UNCHANGED <<status, attempt, good>>
        /\ live' = live \ Pointed({"context"})
        /\ ptr' = [ptr EXCEPT !["context"] = NULL]
    BY <1>5 DEF Cleanup, Release
  <2>2. /\ ptr'["context"] = NULL
        /\ \A k \in EncoderKinds \ {"context"} :
             ptr'[k] = ptr[k] /\ \A n \in Int : <<k, n>> \in live' <=> <<k, n>> \in live
    BY <2>1, <1>t, <1>k DEF Pointed
  <2>3. live' \subseteq live
    BY <2>1
  <2>4. <<"context", attempt>> \notin live'
    <3>1. CASE <<"context", attempt>> \in live
      <4>1. ptr["context"] = attempt
        BY <3>1, <2>1, <1>k
      <4>2. attempt # NULL
        BY <3>1, <1>t
      <4>3. <<"context", attempt>> \in Pointed({"context"})
        BY <4>1, <4>2 DEF Pointed
      <4>4. QED
        BY <2>1, <4>3
    <3>2. QED
      BY <3>1, <2>1
  <2>5. Tracked'
    BY <2>1, <2>2, <2>3, <2>4, <1>t
  <2>6. ContextsGood'
    BY <2>1, <2>3, <2>4, <1>t
  <2>7. QED
    BY <2>1, <2>2, <2>5, <2>6 DEF EncoderCalls, EncoderKinds
<1>6. CASE Dies
  BY <1>6, <1>t, <1>k DEF Dies, EncoderCalls, EncoderKinds
<1>7. CASE AllocatesMuxer
  <2>1. /\ at = "muxer" /\ at' = "stream"
        /\ UNCHANGED <<status, attempt, misused, good>>
        /\ live' = live \cup {<<"muxer", attempt>>}
    BY <1>7 DEF AllocatesMuxer
  <2>2. /\ \A k \in EncoderKinds : ptr'[k] = ptr[k]
        /\ ptr'["muxer"] = attempt
    BY <1>7, <1>k DEF AllocatesMuxer, WithMuxer
  <2>3. \A k \in EncoderKinds, n \in Int : <<k, n>> \in live' <=> <<k, n>> \in live
    BY <2>1, <1>k
  <2>4. QED
    BY <2>1, <2>2, <2>3, <1>t, <1>k DEF EncoderCalls, EncoderKinds
<1>8. CASE NoMuxer
  <2>1. /\ at = "muxer" /\ at' = "idle"
        /\ UNCHANGED <<status, attempt, misused, good, live>>
    BY <1>8 DEF NoMuxer, Returns
  <2>2. \A k \in EncoderKinds : ptr'[k] = ptr[k]
    BY <1>8, <1>k DEF NoMuxer, WithMuxer
  <2>3. QED
    BY <2>1, <2>2, <1>t, <1>k DEF EncoderCalls, EncoderKinds
<1>9. CASE AddsStream
  <2>1. /\ at = "stream" /\ at' = "sps"
        /\ UNCHANGED <<status, attempt, ptr, misused, good>>
        /\ live' = live \cup {<<"codec", attempt>>}
    BY <1>9 DEF AddsStream
  <2>2. \A k \in EncoderKinds, n \in Int : <<k, n>> \in live' <=> <<k, n>> \in live
    BY <2>1, <1>k
  <2>3. QED
    BY <2>1, <2>2, <1>t, <1>k DEF EncoderCalls, EncoderKinds
<1>10. CASE GetsSps
  <2>1. /\ at = "sps" /\ at' = "io" /\ ptr["context"] # NULL
        /\ UNCHANGED <<status, attempt, misused, good, live>>
    BY <1>10 DEF GetsSps, HasSps
  <2>2. /\ \A k \in EncoderKinds \cup {"muxer"} : ptr'[k] = ptr[k]
        /\ ptr'["codec"] = attempt
    BY <1>10, <1>k, <1>t DEF GetsSps
  <2>3. QED
    BY <2>1, <2>2, <1>t, <1>k DEF EncoderCalls, EncoderKinds
<1>11. CASE OpensIo
  <2>1. /\ at = "io" /\ at' = "header"
        /\ UNCHANGED <<status, attempt, misused, good>>
        /\ live' = live \cup {<<"io", attempt>>}
    BY <1>11 DEF OpensIo
  <2>2. /\ \A k \in EncoderKinds \cup {"muxer", "codec"} : ptr'[k] = ptr[k]
        /\ ptr'["io"] = attempt
    BY <1>11, <1>k, <1>t DEF OpensIo
  <2>3. \A k \in EncoderKinds, n \in Int : <<k, n>> \in live' <=> <<k, n>> \in live
    BY <2>1, <1>k
  <2>4. QED
    BY <2>1, <2>2, <2>3, <1>t, <1>k DEF EncoderCalls, EncoderKinds
<1>12. CASE WritesHeader
  <2>1. /\ at = "header" /\ at' = "idle" /\ status' = TRUE
        /\ UNCHANGED <<attempt, misused, good>>
        /\ live' = live \cup {<<"header", attempt>>}
    BY <1>12 DEF WritesHeader, Returns
  <2>2. /\ \A k \in Kinds \ {"header"} : ptr'[k] = ptr[k]
        /\ ptr'["header"] = attempt
    BY <1>12, <1>k, <1>t DEF WritesHeader
  <2>3. \A k \in EncoderKinds, n \in Int : <<k, n>> \in live' <=> <<k, n>> \in live
    BY <2>1, <1>k
  <2>4. \A k \in Kinds : ptr'[k] = attempt /\ <<k, attempt>> \in live'
    BY <2>1, <2>2, <1>t DEF Kinds, FormatKinds
  <2>5. QED
    BY <2>1, <2>2, <2>3, <2>4, <1>t, <1>k DEF EncoderCalls, EncoderKinds
<1>13. ASSUME NEW call \in FormatCalls \ {"muxer"}, FormatFails(call) PROVE SessionInv'
  <2>1. /\ at \in {"stream", "sps", "io", "header"} /\ at' = "idle"
        /\ UNCHANGED <<status, attempt, ptr, misused, good, live>>
    BY <1>13 DEF FormatFails, FormatCalls, Returns
  <2>2. QED
    BY <2>1, <1>t, <1>k DEF EncoderCalls, EncoderKinds
<1>14. CASE GiveUp
  <2>1. /\ at = "idle" /\ at' = "idle" /\ status' = FALSE
        /\ UNCHANGED <<attempt, ptr, good>>
        /\ live' = live \ Pointed({"io", "codec"})
    BY <1>14 DEF GiveUp, Returns, Release
  <2>2. \A k \in EncoderKinds, n \in Int : <<k, n>> \in live' <=> <<k, n>> \in live
    BY <2>1, <1>k DEF Pointed
  <2>3. QED
    BY <2>1, <2>2, <1>t, <1>k DEF EncoderCalls, EncoderKinds
<1>15. CASE LinkChanges
  BY <1>15 DEF LinkChanges
<1>16. CASE Delete
  <2>1. /\ at = "idle" /\ at' = "deleted"
        /\ UNCHANGED <<status, attempt, good>>
        /\ live' = live \ Pointed(EncoderKinds)
    BY <1>16 DEF Delete, Release
  <2>2. \A k \in EncoderKinds : <<k, attempt>> \notin live'
    <3> TAKE k \in EncoderKinds
    <3>1. CASE <<k, attempt>> \in live
      <4>1. ptr[k] = attempt
        BY <3>1, <2>1
      <4>2. attempt # NULL
        BY <3>1, <1>t
      <4>3. <<k, attempt>> \in Pointed(EncoderKinds)
        BY <4>1, <4>2 DEF Pointed
      <4>4. QED
        BY <2>1, <4>3
    <3>2. QED
      BY <3>1, <2>1
  <2>3. live' \subseteq live
    BY <2>1
  <2>4. QED
    BY <2>1, <2>2, <2>3, <1>t, <1>k DEF EncoderCalls, EncoderKinds
<1>17. CASE UNCHANGED vars
  BY <1>17 DEF vars
<1>18. QED
  BY <1>1, <1>2, <1>3, <1>4, <1>5, <1>6, <1>7, <1>8, <1>9, <1>10, <1>11,
     <1>12, <1>13, <1>14, <1>15, <1>16, <1>17 DEF Next, EncoderStep, FormatStep

LEMMA SessionInvariant == Spec => []SessionInv
<1>1. QED
  BY SessionInit, SessionStep, TypeInvariant, PTL DEF Spec

(* Every variable keeps its type, for any number of attempts.              *)
THEOREM TypesHold == Spec => []TypeOK
<1>1. TypeInv => TypeOK
  BY DEF TypeInv
<1>2. QED
  BY <1>1, TypeInvariant, PTL

(* A session in use belongs to one attempt as a whole: nothing of it is    *)
(* left from an attempt that failed or was given up.                       *)
THEOREM OneAttempt == Spec => []SessionFromOneAttempt
<1>1. SessionInv => SessionFromOneAttempt
  BY DEF SessionInv
<1>2. QED
  BY <1>1, SessionInvariant, PTL

(* What has a header was in use; an attempt that is under way has none yet.*)
ClosedInv ==
  /\ at \notin {"idle", "deleted"} => <<"header", attempt>> \notin live
  /\ SessionsClosed

LEMMA ClosedStep == TypeInv /\ SessionInv /\ ClosedInv /\ [Next]_vars => ClosedInv'
<1> SUFFICES ASSUME TypeInv, SessionInv, ClosedInv, [Next]_vars PROVE ClosedInv'
  OBVIOUS
<1>t. attempt \in Nat /\ live \subseteq Kinds \X (1 .. attempt)
  BY DEF TypeInv, TypeOK
<1>k. {"header", "io", "codec"} \cap (EncoderKinds \cup {"muxer"}) = {}
  BY DEF EncoderKinds
<1> USE DEF ClosedInv, SessionsClosed
<1>1. CASE BeginInit
  <2>1. \A k \in Kinds : <<k, attempt + 1>> \notin live
    BY <1>t DEF TypeInv, TypeOK
  <2>2. "header" \in Kinds
    BY DEF Kinds, FormatKinds
  <2>3. \A n \in 1 .. attempt + 1 : n \in 1 .. attempt \/ n = attempt + 1
    BY DEF TypeInv, TypeOK
  <2>4. QED
    BY <1>1, <2>1, <2>2, <2>3 DEF BeginInit
<1>2. CASE GiveUp
  <2>1. <<"io", attempt>> \in Pointed({"io", "codec"}) /\ <<"codec", attempt>> \in Pointed({"io", "codec"})
    <3>1. /\ ptr["io"] = attempt /\ ptr["codec"] = attempt
          /\ <<"io", ptr["io"]>> \in live
      BY <1>2 DEF GiveUp, SessionInv, SessionFromOneAttempt, IsLive, Kinds, FormatKinds
    <3>2. attempt # NULL
      <4>1. attempt \in 1 .. attempt
        BY <1>t, <3>1
      <4>2. QED
        BY <4>1 DEF NULL
    <3>3. QED
      BY <3>1, <3>2 DEF Pointed
  <2>2. QED
    BY <1>2, <2>1 DEF GiveUp, Release, Returns
<1>3. CASE WritesHeader
  <2>1. \A n \in Int : n # attempt => (<<"header", n>> \in live' <=> <<"header", n>> \in live)
    BY <1>3 DEF WritesHeader
  <2>2. \A k \in {"io", "codec"}, n \in Int : <<k, n>> \in live' <=> <<k, n>> \in live
    BY <1>3 DEF WritesHeader
  <2>3. QED
    BY <1>3, <2>1, <2>2 DEF WritesHeader, Returns
<1>4. ASSUME NEW k \in Kinds \ {"header"}, live' = live \cup {<<k, attempt>>},
             at \notin {"idle", "deleted"}, at' \notin {"idle", "deleted"},
             UNCHANGED <<attempt, status>>
      PROVE  ClosedInv'
  BY <1>4
<1>5. ASSUME live' \subseteq live, UNCHANGED <<attempt, status>>,
             at' \in {"idle", "deleted"} \/ at \notin {"idle", "deleted"}
      PROVE  ClosedInv'
  BY <1>5
<1>6. ASSUME NEW k \in EncoderKinds, Creates(k) PROVE ClosedInv'
  <2>1. k \in Kinds \ {"header"}
    BY <1>k DEF Kinds
  <2>2. at \notin {"idle", "deleted"} /\ at' \notin {"idle", "deleted"}
    BY <1>6 DEF Creates, Following, EncoderKinds
  <2>3. QED
    BY <1>4, <1>6, <2>1, <2>2 DEF Creates
<1>7. CASE AllocatesMuxer \/ AddsStream \/ OpensIo
  <2>1. {"muxer", "codec", "io"} \subseteq Kinds \ {"header"}
    BY DEF Kinds, FormatKinds
  <2>2. QED
    BY <1>4, <1>7, <2>1 DEF AllocatesMuxer, AddsStream, OpensIo
<1>8. CASE \/ \E call \in {"mpp_init", "setup"} : Configures(call)
           \/ \E call \in EncoderCalls : EncoderFails(call)
           \/ Cleanup \/ Dies \/ GetsSps
  <2>1. at \notin {"idle", "deleted"}
    BY <1>8 DEF Configures, EncoderFails, Cleanup, Dies, GetsSps, EncoderCalls, EncoderKinds
  <2>2. live' \subseteq live /\ UNCHANGED <<attempt, status>>
    BY <1>8 DEF Configures, EncoderFails, Cleanup, Dies, GetsSps, Release
  <2>3. QED
    BY <1>5, <2>1, <2>2
<1>9. CASE \/ NoMuxer \/ Delete
           \/ \E call \in FormatCalls \ {"muxer"} : FormatFails(call)
  BY <1>5, <1>9 DEF NoMuxer, Delete, FormatFails, Returns, Release
<1>10. CASE UNCHANGED <<live, attempt, status, at>>
  BY <1>10
<1>11. QED
  BY <1>1, <1>2, <1>3, <1>6, <1>7, <1>8, <1>9, <1>10
     DEF Next, EncoderStep, FormatStep, LinkChanges, vars

(* A failed init leaves no context, a session that was in use leaves no    *)
(* connection and no codec context, and the destructor leaves nothing of   *)
(* the last attempt's encoder behind.                                      *)
THEOREM CleanUpHolds == Spec => []CleansUp
<1>1. Init => ClosedInv
  BY DEF Init, ClosedInv, SessionsClosed
<1>2. SessionInv /\ ClosedInv => CleansUp
  BY DEF SessionInv, ClosedInv, CleansUp
<1>3. QED
  BY <1>1, <1>2, ClosedStep, SessionInvariant, TypeInvariant, PTL DEF Spec

(* However attempts fail, nothing is released twice; once an encoder has   *)
(* been set up, no pointer without a resource is released at all.          *)
THEOREM OwnReleased == Spec => ReleasesOwn
<1> DEFINE Fine == \A m \in misused' \ misused : m[2] = Garbage /\ good = {}
<1>1. ASSUME TypeInv, SessionInv, [Next]_vars PROVE [Fine]_vars
  <2> DEFINE Unset(K) == \A m \in Pointed(K) \ live : m[2] = Garbage /\ good = {}
  <2>1. ASSUME at # "deleted" PROVE Unset(EncoderKinds) /\ Unset({"context"})
    <3>1. \A k \in EncoderKinds :
            ptr[k] = NULL \/ <<k, ptr[k]>> \in live \/ (ptr[k] = Garbage /\ good = {})
      BY <1>1, <2>1 DEF SessionInv, Tracked, IsLive
    <3>2. "context" \in EncoderKinds
      BY DEF EncoderKinds
    <3>3. QED
      BY <3>1, <3>2 DEF Pointed
  <2>2. CASE Cleanup
    BY <2>1, <2>2 DEF Cleanup, Release
  <2>3. CASE Delete
    BY <2>1, <2>3 DEF Delete, Release
  <2>4. CASE GiveUp
    <3>1. Pointed({"io", "codec"}) \subseteq live
      BY <1>1, <2>4 DEF GiveUp, Pointed, SessionInv, SessionFromOneAttempt, IsLive, Kinds, FormatKinds
    <3>2. QED
      BY <2>4, <3>1 DEF GiveUp, Release
  <2>5. CASE misused' = misused
    BY <2>5
  <2>6. QED
    BY <1>1, <2>2, <2>3, <2>4, <2>5 DEF Next, EncoderStep, FormatStep, vars, BeginInit, Creates,
       Configures, EncoderFails, Dies, AllocatesMuxer, NoMuxer, AddsStream, GetsSps, OpensIo,
       WritesHeader, FormatFails, LinkChanges
<1>2. QED
  BY <1>1, SessionInvariant, TypeInvariant, PTL DEF Spec, ReleasesOwn

-----------------------------------------------------------------------------
(* The refinement.                                                         *)

CodecShown ==
  IF ptr["codec"] <= 0 THEN "none" ELSE IF IsLive("codec") THEN "live" ELSE "freed"

ShownType ==
  [status : BOOLEAN, encoder : {"none", "ready", "broken"},
   muxer : {"none", "allocated", "headed"}, io : {"closed", "open", "broken"},
   codec : {"none", "live", "freed"}, crashed : BOOLEAN]

(* What was shown last is still what it was, but for the pieces that the   *)
(* attempt under way has replaced.                                         *)
ShownInv ==
  /\ shown \in ShownType
  /\ shown.crashed <=> at = "dead"
  /\ shown.status <=> status
  /\ status => shown.encoder = "ready" /\ shown.muxer = "headed"
  /\ at \notin {"io", "header"} => shown.codec = CodecShown
  /\ up => link
  /\ at \in EncoderCalls \cup {"cleanup", "muxer", "stream", "sps"} => ptr["codec"] < attempt
  /\ at \in {"stream", "sps", "io"} => ptr["io"] = NULL
  /\ at \in {"stream", "sps", "io", "header"} => ptr["header"] = NULL

AbstractNext == [Abstract!SessionNext]_<<link, Abstract!sessionVars>>

LEMMA ViewType == status \in BOOLEAN => View \in ShownType
BY DEF View, ShownType

LEMMA ShownInit == Init => ShownInv /\ Abstract!SessionInit
<1> SUFFICES ASSUME Init PROVE ShownInv /\ Abstract!SessionInit
  OBVIOUS
<1>1. /\ at = "idle" /\ live = {} /\ attempt = 0 /\ ptr["codec"] = NULL /\ link \in BOOLEAN
  BY DEF Init, FormatKinds
<1>2. up = FALSE /\ status = FALSE
  BY DEF Init
<1>3. shown = View /\ shown \in ShownType
  BY <1>2, ViewType DEF Init, ShownType
<1>4. /\ shown.encoder = "none" /\ shown.muxer = "none" /\ shown.io = "closed"
      /\ shown.codec = "none"
  BY <1>1, <1>3 DEF View, IsLive
<1>5. (at = "dead") = FALSE
  BY <1>1
<1>6. shown.status = FALSE /\ shown.crashed = FALSE
  BY <1>2, <1>3, <1>5, Zenon DEF View
<1>7. ShownInv
  BY <1>1, <1>2, <1>3, <1>4, <1>6 DEF ShownInv, CodecShown, EncoderCalls, EncoderKinds
<1>8. QED
  BY <1>1, <1>4, <1>6, <1>7 DEF Abstract!SessionInit

(* What initRtmp shows when it returns.                                    *)
LEMMA Shows ==
  ASSUME Returns, status' \in BOOLEAN, attempt' >= 1
  PROVE  /\ shown' \in ShownType /\ at' = "idle"
         /\ shown'.status <=> status'
         /\ ~shown'.crashed
         /\ shown'.encoder = IF IsLive("context")' THEN "ready" ELSE "broken"
         /\ shown'.muxer = IF ~IsLive("muxer")' THEN "none" ELSE IF IsLive("header")' THEN "headed" ELSE "allocated"
         /\ shown'.io = IF ~IsLive("io")' THEN "closed" ELSE IF up' THEN "open" ELSE "broken"
         /\ shown'.codec = CodecShown'
<1>1. shown' = View' /\ at' = "idle"
  BY DEF Returns
<1>2. View' \in ShownType
  BY DEF View, ShownType
<1>3. (at' = "dead") = FALSE
  BY <1>1
<1>4. shown'.status = status' /\ shown'.crashed = FALSE
  BY <1>1, <1>3, Zenon DEF View
<1>5. attempt' # 0
  OBVIOUS
<1>6. QED
  BY <1>1, <1>2, <1>4, <1>5 DEF View, CodecShown

LEMMA ShownStep ==
  ASSUME TypeInv, TypeInv', SessionInv, SessionInv', ShownInv, [Next]_vars
  PROVE  ShownInv' /\ AbstractNext
<1>t. /\ attempt \in Nat /\ ptr \in [Kinds -> {Garbage} \cup 0 .. attempt]
      /\ live \subseteq Kinds \X (1 .. attempt)
      /\ status \in BOOLEAN /\ status' \in BOOLEAN
      /\ at # "idle" => attempt >= 1
  BY DEF TypeInv, TypeOK
<1>k. /\ EncoderKinds \subseteq Kinds /\ {"muxer", "codec", "io", "header"} \subseteq Kinds
      /\ "context" \in EncoderKinds
      /\ {"muxer", "codec", "io", "header"} \cap EncoderKinds = {}
  BY DEF Kinds, FormatKinds, EncoderKinds
<1>s. status => at \in {"idle", "deleted"}
  BY DEF SessionInv, StatusInv
<1> DEFINE Quiet == UNCHANGED <<link, shown>>
<1>q. Quiet => AbstractNext
  BY DEF AbstractNext, Abstract!sessionVars
<1> HIDE DEF Quiet
<1> DEFINE Attempts ==
      /\ ~shown.crashed /\ ~shown.status /\ UNCHANGED link
      /\ Abstract!InitFails \/ Abstract!InitSucceeds \/ Abstract!InitDies
<1>a. Attempts => AbstractNext
  BY DEF AbstractNext, Abstract!SessionNext
<1> HIDE DEF Attempts
<1>1. CASE BeginInit
  <2>1. Quiet
    BY <1>1 DEF BeginInit, Quiet
  <2>2. ShownInv'
    BY <1>1, <1>t, <1>k DEF BeginInit, ShownInv, CodecShown, IsLive
  <2>3. QED
    BY <2>1, <2>2, <1>q
<1>2. ASSUME NEW k \in EncoderKinds, Creates(k) PROVE ShownInv' /\ AbstractNext
  <2>1. Quiet
    BY <1>2 DEF Creates, Quiet
  <2>2. ptr'["codec"] = ptr["codec"] /\ (IsLive("codec")' <=> IsLive("codec"))
    BY <1>2, <1>t, <1>k DEF Creates, IsLive
  <2>3. at \in EncoderCalls /\ at' \in EncoderCalls
    BY <1>2 DEF Creates, Following, EncoderKinds, EncoderCalls
  <2>4. ShownInv'
    BY <1>2, <2>2, <2>3 DEF Creates, ShownInv, CodecShown, EncoderCalls, EncoderKinds
  <2>5. QED
    BY <2>1, <2>4, <1>q
<1>3. ASSUME NEW call \in {"mpp_init", "setup"}, Configures(call) PROVE ShownInv' /\ AbstractNext
  <2>1. Quiet
    BY <1>3 DEF Configures, Quiet
  <2>2. at \in EncoderCalls /\ at' \in {"config", "muxer"}
    BY <1>3 DEF Configures, Following, EncoderCalls
  <2>3. ShownInv'
    BY <1>3, <2>2 DEF Configures, ShownInv, CodecShown, IsLive, EncoderCalls, EncoderKinds
  <2>4. QED
    BY <2>1, <2>3, <1>q
<1>4. ASSUME NEW call \in EncoderCalls, EncoderFails(call) PROVE ShownInv' /\ AbstractNext
  <2>1. Quiet
    BY <1>4 DEF EncoderFails, Quiet
  <2>2. ptr'["codec"] = ptr["codec"]
    BY <1>4, <1>t, <1>k DEF EncoderFails
  <2>3. ShownInv'
    BY <1>4, <2>2 DEF EncoderFails, ShownInv, CodecShown, IsLive, EncoderCalls, EncoderKinds
  <2>4. QED
    BY <2>1, <2>3, <1>q
<1>5. CASE Cleanup
  <2>1. Quiet
    BY <1>5 DEF Cleanup, Quiet
  <2>2. ptr'["codec"] = ptr["codec"] /\ (IsLive("codec")' <=> IsLive("codec"))
    BY <1>5, <1>t, <1>k DEF Cleanup, Release, Pointed, IsLive
  <2>3. ShownInv'
    BY <1>5, <2>2 DEF Cleanup, ShownInv, CodecShown, EncoderCalls, EncoderKinds
  <2>4. QED
    BY <2>1, <2>3, <1>q
<1>6. CASE Dies
  <2>1. /\ at \in {"cleanup", "sps"} /\ at' = "dead" /\ ~status
        /\ shown' = [shown EXCEPT !.status = FALSE, !.encoder = "broken", !.crashed = TRUE]
        /\ UNCHANGED <<link, up, status, attempt, ptr, live>>
    BY <1>6, <1>s DEF Dies
  <2>2. /\ shown' \in ShownType /\ shown'.encoder = "broken"
        /\ shown'.muxer = shown.muxer /\ shown'.io = shown.io /\ shown'.codec = shown.codec
    BY <2>1 DEF ShownInv, ShownType
  <2>3. shown'.status = FALSE /\ shown'.crashed = TRUE
    BY <2>1 DEF ShownInv, ShownType
  <2>4. ShownInv'
    BY <2>1, <2>2, <2>3 DEF ShownInv, CodecShown, IsLive, EncoderCalls, EncoderKinds
  <2>5. Abstract!InitDies
    BY <2>2, <2>3 DEF Abstract!InitDies, Abstract!EncoderInits
  <2>6. Attempts
    BY <2>1, <2>5 DEF Attempts, ShownInv
  <2>7. QED
    BY <2>4, <2>6, <1>a
<1>7. CASE AllocatesMuxer
  <2>1. Quiet
    BY <1>7 DEF AllocatesMuxer, Quiet
  <2>2. /\ ptr'["codec"] = ptr["codec"] /\ (IsLive("codec")' <=> IsLive("codec"))
        /\ ptr'["io"] = NULL /\ ptr'["header"] = NULL
    BY <1>7, <1>t, <1>k DEF AllocatesMuxer, WithMuxer, IsLive
  <2>3. ShownInv'
    BY <1>7, <2>2 DEF AllocatesMuxer, ShownInv, CodecShown, EncoderCalls, EncoderKinds
  <2>4. QED
    BY <2>1, <2>3, <1>q
<1>8. CASE NoMuxer
  <2>1. /\ at = "muxer" /\ ~status /\ ~status' /\ attempt >= 1 /\ Returns
        /\ UNCHANGED <<link, up, attempt, live>>
    BY <1>8, <1>s, <1>t DEF NoMuxer
  <2>2. /\ shown' \in ShownType /\ at' = "idle"
        /\ ~shown'.status /\ ~shown'.crashed
        /\ shown'.encoder \in {"ready", "broken"} /\ shown'.codec = CodecShown'
        /\ shown'.muxer = "none" /\ shown'.io = "closed"
    <3>1. ptr'["muxer"] = NULL /\ ptr'["io"] = NULL
      BY <1>8, <1>k DEF NoMuxer, WithMuxer
    <3>2. ~IsLive("muxer")' /\ ~IsLive("io")'
      BY <2>1, <3>1, <1>t DEF IsLive
    <3>3. QED
      BY <2>1, <3>2, <1>t, Shows
  <2>3. shown'.codec = shown.codec
    <3>1. ptr'["codec"] = ptr["codec"]
      BY <1>8, <1>k DEF NoMuxer, WithMuxer
    <3>2. QED
      BY <2>1, <2>2, <3>1 DEF ShownInv, CodecShown, IsLive
  <2>4. ShownInv'
    BY <2>1, <2>2 DEF ShownInv, EncoderCalls, EncoderKinds
  <2>5. (shown'.status = FALSE) /\ shown'.crashed = shown.crashed
    BY <2>1, <2>2 DEF ShownInv, ShownType
  <2>6. Abstract!InitFails
    BY <2>2, <2>3, <2>5 DEF Abstract!InitFails, Abstract!EncoderInits
  <2>7. Attempts
    BY <2>1, <2>6 DEF Attempts, ShownInv
  <2>8. QED
    BY <2>4, <2>7, <1>a
<1>9. CASE AddsStream
  <2>1. Quiet
    BY <1>9 DEF AddsStream, Quiet
  <2>2. ptr["codec"] < attempt /\ ptr["codec"] \in Int
    BY <1>9, <1>t, <1>k DEF AddsStream, ShownInv
  <2>3. IsLive("codec")' <=> IsLive("codec")
    BY <1>9, <2>2, <1>t DEF AddsStream, IsLive
  <2>4. ShownInv'
    BY <1>9, <2>3 DEF AddsStream, ShownInv, CodecShown, EncoderCalls, EncoderKinds
  <2>5. QED
    BY <2>1, <2>4, <1>q
<1>10. CASE GetsSps
  <2>1. Quiet
    BY <1>10 DEF GetsSps, Quiet
  <2>2. ptr'["io"] = ptr["io"] /\ ptr'["header"] = ptr["header"]
    BY <1>10, <1>t, <1>k DEF GetsSps
  <2>3. ShownInv'
    BY <1>10, <2>2 DEF GetsSps, ShownInv, EncoderCalls, EncoderKinds
  <2>4. QED
    BY <2>1, <2>3, <1>q
<1>11. CASE OpensIo
  <2>1. Quiet
    BY <1>11 DEF OpensIo, Quiet
  <2>2. ptr'["header"] = ptr["header"]
    BY <1>11, <1>t, <1>k DEF OpensIo
  <2>3. ShownInv'
    BY <1>11, <2>2 DEF OpensIo, ShownInv, EncoderCalls, EncoderKinds
  <2>4. QED
    BY <2>1, <2>3, <1>q
<1>12. CASE WritesHeader
  <2>1. /\ at = "header" /\ ~status /\ status' /\ attempt >= 1 /\ Returns /\ link /\ up
        /\ UNCHANGED <<link, up, attempt>>
    BY <1>12, <1>s, <1>t DEF WritesHeader
  <2>2. /\ shown' \in ShownType /\ at' = "idle"
        /\ shown'.status /\ ~shown'.crashed
        /\ shown'.encoder = "ready" /\ shown'.codec = CodecShown'
        /\ shown'.muxer = "headed" /\ shown'.io = "open"
    <3>1. IsLive("context")' /\ IsLive("muxer")' /\ IsLive("io")' /\ IsLive("header")'
      BY <2>1, <1>k DEF SessionInv, SessionFromOneAttempt, Returns
    <3>2. QED
      BY <2>1, <3>1, <1>t, Shows
  <2>3. shown'.codec = "live"
    <3>1. ptr'["codec"] = attempt /\ IsLive("codec")'
      BY <2>1, <1>k DEF SessionInv, SessionFromOneAttempt, Returns
    <3>2. QED
      BY <2>1, <2>2, <3>1, <1>t DEF CodecShown
  <2>4. ShownInv'
    BY <2>1, <2>2 DEF ShownInv, EncoderCalls, EncoderKinds
  <2>5. (shown'.status = TRUE) /\ shown'.crashed = shown.crashed
    BY <2>1, <2>2 DEF ShownInv, ShownType
  <2>6. Abstract!InitSucceeds
    BY <2>1, <2>2, <2>3, <2>5 DEF Abstract!InitSucceeds, Abstract!EncoderInits
  <2>7. Attempts
    BY <2>1, <2>6 DEF Attempts, ShownInv
  <2>8. QED
    BY <2>4, <2>7, <1>a
<1>13. ASSUME NEW call \in FormatCalls \ {"muxer"}, FormatFails(call) PROVE ShownInv' /\ AbstractNext
  <2>1. /\ at \in {"stream", "sps", "io", "header"} /\ ~status /\ ~status' /\ attempt >= 1 /\ Returns
        /\ UNCHANGED <<link, up, attempt, ptr, live>>
    BY <1>13, <1>s, <1>t DEF FormatFails, FormatCalls
  <2>2. /\ shown' \in ShownType /\ at' = "idle"
        /\ ~shown'.status /\ ~shown'.crashed
        /\ shown'.encoder = IF IsLive("context") THEN "ready" ELSE "broken"
        /\ shown'.muxer = "allocated"
        /\ shown'.io = IF ~IsLive("io") THEN "closed" ELSE IF up THEN "open" ELSE "broken"
        /\ shown'.codec = CodecShown
    <3>1. IsLive("muxer") /\ ~IsLive("header")
      BY <2>1, <1>t DEF SessionInv, InOrder, Own, ShownInv, IsLive
    <3>2. QED
      BY <2>1, <3>1, <1>t, Shows DEF IsLive, CodecShown
  <2>3. ShownInv'
    BY <2>1, <2>2 DEF ShownInv, CodecShown, IsLive, EncoderCalls, EncoderKinds
  <2>4. (shown'.status = FALSE) /\ shown'.crashed = shown.crashed
    BY <2>1, <2>2 DEF ShownInv, ShownType
  <2>5. CASE at \in {"stream", "sps"}
    <3>1. shown'.io = "closed" /\ shown'.codec = shown.codec
      BY <2>2, <2>5, <1>t DEF ShownInv, IsLive
    <3>2. Abstract!InitFails
      BY <2>2, <2>4, <3>1 DEF Abstract!InitFails, Abstract!EncoderInits
    <3>3. QED
      BY <2>1, <2>3, <3>2, <1>a DEF Attempts, ShownInv
  <2>6. CASE at \in {"io", "header"}
    <3>1. shown'.encoder = "ready" /\ shown'.codec = "live"
      <4>1. Own("context") /\ Own("codec")
        BY <2>6, <1>k DEF SessionInv, InOrder
      <4>2. IsLive("context") /\ IsLive("codec") /\ ~(ptr["codec"] <= 0)
        BY <2>1, <4>1, <1>t DEF Own, IsLive
      <4>3. QED
        BY <2>2, <4>2 DEF CodecShown
    <3>2. \/ shown'.io = "closed"
          \/ shown'.io = "broken" \/ (shown'.io = "open" /\ link)
      BY <2>2 DEF ShownInv
    <3>3. Abstract!InitFails
      BY <2>2, <2>4, <3>1, <3>2 DEF Abstract!InitFails, Abstract!EncoderInits
    <3>4. QED
      BY <2>1, <2>3, <3>3, <1>a DEF Attempts, ShownInv
  <2>7. QED
    BY <2>1, <2>5, <2>6
<1>14. CASE GiveUp
  <2>1. /\ at = "idle" /\ status /\ ~status' /\ Returns
        /\ \A k \in Kinds : ptr[k] = attempt /\ IsLive(k)
        /\ live' = live \ Pointed({"io", "codec"})
        /\ UNCHANGED <<link, up, attempt, ptr>>
    BY <1>14 DEF GiveUp, Release, SessionInv, SessionFromOneAttempt
  <2>2. attempt >= 1
    <3>1. <<"io", attempt>> \in live
      BY <2>1, <1>k DEF IsLive
    <3>2. QED
      BY <3>1, <1>t
  <2>3. /\ IsLive("context")' /\ IsLive("muxer")' /\ IsLive("header")'
        /\ ~IsLive("io")' /\ ~IsLive("codec")'
    BY <2>1, <2>2, <1>k DEF IsLive, Pointed
  <2>4. /\ shown' \in ShownType /\ at' = "idle"
        /\ ~shown'.status /\ ~shown'.crashed
        /\ shown'.encoder = "ready" /\ shown'.codec = CodecShown'
        /\ shown'.muxer = "headed" /\ shown'.io = "closed"
    BY <2>1, <2>2, <2>3, <1>t, Shows
  <2>5. shown'.codec = "freed"
    <3>1. ptr'["codec"] = attempt
      BY <2>1, <1>k
    <3>2. ~(ptr'["codec"] <= 0)
      BY <2>2, <3>1, <1>t
    <3>3. QED
      BY <2>3, <2>4, <3>2 DEF CodecShown
  <2>6. ShownInv'
    BY <2>1, <2>4 DEF ShownInv, EncoderCalls, EncoderKinds
  <2>7. (shown'.status = FALSE) /\ shown'.crashed = shown.crashed
    BY <2>1, <2>4 DEF ShownInv, ShownType
  <2>8. Abstract!CloseSession
    BY <2>1, <2>4, <2>5, <2>7 DEF Abstract!CloseSession, ShownInv
  <2>9. ~shown.crashed /\ shown.status
    BY <2>1 DEF ShownInv
  <2>10. QED
    BY <2>1, <2>6, <2>8, <2>9 DEF AbstractNext, Abstract!SessionNext
<1>15. CASE LinkChanges
  <2>1. /\ at # "dead" /\ link' = ~link /\ ~up'
        /\ shown' = [shown EXCEPT !.io = IF shown.io = "open" THEN "broken" ELSE shown.io]
        /\ UNCHANGED <<status, at, attempt, ptr, live>>
    BY <1>15 DEF LinkChanges
  <2>2. /\ shown' \in ShownType
        /\ shown'.io = IF shown.io = "open" THEN "broken" ELSE shown.io
        /\ shown'.status = shown.status /\ shown'.encoder = shown.encoder
        /\ shown'.muxer = shown.muxer /\ shown'.codec = shown.codec
        /\ shown'.crashed = shown.crashed
    BY <2>1 DEF ShownInv, ShownType
  <2>3. ShownInv'
    BY <2>1, <2>2 DEF ShownInv, CodecShown, IsLive
  <2>4. Abstract!LinkFlips
    BY <2>1, <2>2 DEF Abstract!LinkFlips
  <2>5. ~shown.crashed
    BY <2>1 DEF ShownInv
  <2>6. QED
    BY <2>3, <2>4, <2>5 DEF AbstractNext, Abstract!SessionNext
<1>16. CASE Delete
  <2>1. Quiet
    BY <1>16 DEF Delete, Quiet
  <2>2. ptr'["codec"] = ptr["codec"] /\ (IsLive("codec")' <=> IsLive("codec"))
    BY <1>16, <1>t, <1>k DEF Delete, Release, Pointed, IsLive
  <2>3. ShownInv'
    BY <1>16, <2>2 DEF Delete, ShownInv, CodecShown, EncoderCalls, EncoderKinds
  <2>4. QED
    BY <2>1, <2>3, <1>q
<1>17. CASE UNCHANGED vars
  <2>1. Quiet
    BY <1>17 DEF vars, Quiet
  <2>2. ShownInv'
    BY <1>17 DEF vars, ShownInv, CodecShown, IsLive
  <2>3. QED
    BY <2>1, <2>2, <1>q
<1>18. QED
  BY <1>1, <1>2, <1>3, <1>4, <1>5, <1>6, <1>7, <1>8, <1>9, <1>10, <1>11,
     <1>12, <1>13, <1>14, <1>15, <1>16, <1>17 DEF Next, EncoderStep, FormatStep

(* initRtmp, taken apart into its calls with everything that may go wrong  *)
(* in them, does to the session what the model of PushRtmp assumes.        *)
THEOREM ImplementsSession == Spec => IsSession
<1>1. Init => ShownInv /\ Abstract!SessionInit
  BY ShownInit
<1>2. TypeInv /\ TypeInv' /\ SessionInv /\ SessionInv' /\ ShownInv /\ [Next]_vars
        => ShownInv' /\ AbstractNext
  BY ShownStep
<1>3. QED
  BY <1>1, <1>2, TypeInvariant, SessionInvariant, PTL
     DEF Spec, IsSession, Abstract!SessionSpec, AbstractNext
=============================================================================
