-------------------------- MODULE ExpertTiersProofs --------------------------
(***************************************************************************)
(* Proofs about ExpertTiers for every set of threads, number of experts,   *)
(* budget and failure: of the loaders that miss an expert one reads it,    *)
(* the copies of an expert that parse never differ, the cache's accounts   *)
(* are exact, and a claim lasts as long as its load.  IInv adds to the     *)
(* first two that a loader which reads holds the lock of what it reads;    *)
(* StoreInv counts the bytes by the recency list, which eviction pops, in  *)
(* place of the set of residents.                                          *)
(***************************************************************************)
EXTENDS ExpertTiers, SequenceTheorems, FiniteSetTheorems, WellFoundedInduction, TLAPS

Loading == {"look", "wait", "fetch"}

TypesOK ==
  /\ at \in [Loaders -> Places]
  /\ lock \in [Experts -> Loaders \cup {NoOne}]
  /\ l2 \in [Experts -> Files] /\ l3 \in [Experts -> Files]
  /\ DOMAIN todo = Threads
  /\ \A t \in Threads : at[t] \in Loading => todo[t] \in Seq(Experts) \ {<<>>}

(* Who reads an expert has its lock, and the expert is not resident.       *)
Held ==
  \A p \in Loaders : at[p] = "fetch" => lock[Want(p)] = p /\ ~Resident(Want(p))

IInv == TypesOK /\ Held /\ SameWeights

(* What a step does that neither reads nor locks: nobody begins to read,   *)
(* and who reads goes on reading the same expert.                          *)
NobodyReads ==
  /\ UNCHANGED <<cache, files, lock>>
  /\ \A q \in Loaders : at'[q] = "fetch" => at[q] = "fetch" /\ Want(q)' = Want(q)

-----------------------------------------------------------------------------
(* Helpers.                                                                *)

\* A loader is a thread or an expert, and not both.
LEMMA Kinds ==
  /\ Threads \cap Experts = {}
  /\ NoOne \notin Loaders
  BY TiersAssumption DEF Experts, Loaders

\* What a loader is after is an expert.
LEMMA WantIsExpert ==
  ASSUME TypesOK, NEW p \in Loaders, at[p] \in Loading
  PROVE  Want(p) \in Experts
  BY Kinds DEF TypesOK, Want, Loaders

\* What follows the first of several.
LEMMA TailOfSeveral ==
  ASSUME NEW S, NEW s \in Seq(S) \ {<<>>}, Len(s) # 1
  PROVE  Tail(s) \in Seq(S) \ {<<>>}
<1>1. Len(s) \in Nat \ {0, 1} /\ Len(<<>>) = 0
  BY EmptySeq
<1>2. Tail(s) \in Seq(S) /\ Len(Tail(s)) = Len(s) - 1
  BY <1>1, HeadTailProperties
<1> QED
  BY <1>1, <1>2

\* A load that succeeded leaves its thread with nothing, or more, to load.
LEMMA LoadedTypes ==
  ASSUME TypesOK, NEW p \in Loaders, at[p] \in Loading, Loaded(p)
  PROVE  /\ at' \in [Loaders -> Places]
         /\ DOMAIN todo' = Threads
         /\ \A t \in Threads : at'[t] \in Loading => todo'[t] \in Seq(Experts) \ {<<>>}
         /\ at'[p] # "fetch"
         /\ \A q \in Loaders \ {p} : at'[q] = at[q] /\ Want(q)' = Want(q)
<1>1. CASE p \in Threads
  <2>1. todo[p] \in Seq(Experts) \ {<<>>}
    BY <1>1 DEF TypesOK
  <2>2. Len(todo[p]) # 1 => Tail(todo[p]) \in Seq(Experts) \ {<<>>}
    BY <2>1, TailOfSeveral
  <2>3. /\ todo' = [todo EXCEPT ![p] = Tail(@)]
        /\ at' = [at EXCEPT ![p] = IF Len(todo[p]) = 1 THEN "learn" ELSE "look"]
    BY <1>1 DEF Loaded
  <2>4. \A q \in Loaders \ {p} : at'[q] = at[q] /\ (q \in Threads => todo'[q] = todo[q])
    BY <2>3 DEF TypesOK, Loaders
  <2>5. at'[p] \in {"learn", "look"} /\ todo'[p] = Tail(todo[p])
    BY <2>3, <1>1 DEF TypesOK, Loaders
  <2>6. at' \in [Loaders -> Places] /\ DOMAIN todo' = Threads
    BY <2>3 DEF TypesOK, Places
  <2>7. at'[p] \in Loading => Len(todo[p]) # 1
    BY <2>3, <1>1 DEF TypesOK, Loaders, Loading
  <2> QED
    BY <2>2, <2>4, <2>5, <2>6, <2>7 DEF TypesOK, Want, Loaders
<1>2. CASE p \notin Threads
  <2>1. at' = [at EXCEPT ![p] = "release"] /\ todo' = todo
    BY <1>2 DEF Loaded, seqs
  <2> QED
    BY <2>1 DEF TypesOK, Want, Loaders, Places
<1> QED
  BY <1>1, <1>2

\* A load that failed leaves its loader with nothing to load.
LEMMA FailedTypes ==
  ASSUME TypesOK, NEW p \in Loaders, Failed(p)
  PROVE  /\ at' \in [Loaders -> Places]
         /\ DOMAIN todo' = Threads
         /\ \A t \in Threads : at'[t] \in Loading => todo'[t] \in Seq(Experts) \ {<<>>}
         /\ at'[p] # "fetch"
         /\ \A q \in Loaders \ {p} : at'[q] = at[q] /\ Want(q)' = Want(q)
<1>1. CASE p \in Threads
  <2>1. /\ todo' = [todo EXCEPT ![p] = <<>>]
        /\ at' = [at EXCEPT ![p] = "idle"]
    BY <1>1 DEF Failed
  <2> QED
    BY <2>1, <1>1 DEF TypesOK, Want, Loaders, Places, Loading
<1>2. CASE p \notin Threads
  <2>1. at' = [at EXCEPT ![p] = "release"] /\ todo' = todo
    BY <1>2 DEF Failed, seqs
  <2>2. at' \in [Loaders -> Places] /\ at'[p] = "release"
    BY <2>1 DEF TypesOK, Places
  <2>3. \A q \in Loaders \ {p} : at'[q] = at[q]
    BY <2>1 DEF TypesOK
  <2> QED
    BY <1>2, <2>1, <2>2, <2>3 DEF TypesOK, Want, Loaders
<1> QED
  BY <1>1, <1>2

\* What a read brings is what some tier held, or what no tier did.
LEMMA ReadsAgree ==
  ASSUME TypesOK, SameWeights, NEW e \in Experts, NEW r \in Reads(e)
  PROVE  /\ r.l2 \in Files
         /\ r.got # "error" => ({r.l2, l3[e], r.got} \cap Weights # Weights)
         /\ r.got = "error" => r.l2 = l2[e]
<1>1. l2[e] \in Files /\ l3[e] \in Files
  BY DEF TypesOK
<1>2. {l2[e], l3[e]} \cap Weights # Weights
  BY DEF SameWeights
<1>3. CASE l2[e] # "none"
  <2>1. \/ r.got = "error" /\ r.l2 = l2[e]
        \/ r.got = l2[e] /\ r.l2 = l2[e]
    BY <1>3 DEF Reads
  <2> QED
    BY <1>1, <1>2, <2>1
<1>4. CASE l2[e] = "none" /\ l3[e] # "none"
  <2>1. \/ r.got = "error" /\ r.l2 = l2[e]
        \/ r.got = l3[e] /\ r.l2 \in {l3[e], "none"}
    BY <1>4 DEF Reads
  <2> QED
    BY <1>1, <1>2, <1>4, <2>1 DEF Weights, Files
<1>5. CASE l2[e] = "none" /\ l3[e] = "none"
  <2>1. r.got = "synthesised" /\ r.l2 \in {"synthesised", "none"}
    BY <1>5 DEF Reads
  <2> QED
    BY <1>5, <2>1 DEF Weights, Files
<1> QED
  BY <1>3, <1>4, <1>5

\* A step that neither reads nor locks keeps what reading relies on.
LEMMA NobodyReadsKeeps ==
  ASSUME Held, SameWeights, NobodyReads
  PROVE  Held' /\ SameWeights'
<1>1. loaded' = loaded /\ l2' = l2 /\ l3' = l3 /\ lock' = lock
  BY DEF NobodyReads, cache, files
<1>2. Held'
  BY <1>1 DEF Held, NobodyReads, Resident
<1>3. SameWeights'
  BY <1>1 DEF SameWeights
<1> QED
  BY <1>2, <1>3

-----------------------------------------------------------------------------
(* The steps of a load.                                                    *)

\* The first look finds the expert, or sends its loader to wait.
LEMMA FirstLookKeeps ==
  ASSUME IInv, NEW p \in Loaders, FirstLook(p)
  PROVE  IInv'
<1>1. at[p] = "look" /\ at[p] \in Loading
  BY DEF FirstLook, Loading
<1>2. loaded' = loaded /\ l2' = l2 /\ l3' = l3 /\ lock' = lock
  BY DEF FirstLook, Touch, cache, files
<1>3. Held' /\ TypesOK'
  <2>1. CASE Loaded(p)
    <3>1. \A q \in Loaders : at'[q] = "fetch" => at[q] = "fetch" /\ Want(q)' = Want(q)
      BY <1>1, <2>1, LoadedTypes DEF IInv
    <3>2. Held'
      BY <1>2, <3>1 DEF IInv, Held, Resident
    <3>3. TypesOK'
      BY <1>1, <1>2, <2>1, LoadedTypes DEF IInv, TypesOK
    <3> QED
      BY <3>2, <3>3
  <2>2. CASE at' = [at EXCEPT ![p] = "wait"] /\ todo' = todo
    <3>1. at'[p] = "wait" /\ \A q \in Loaders \ {p} : at'[q] = at[q]
      BY <2>2 DEF IInv, TypesOK
    <3>2. \A q \in Loaders : Want(q)' = Want(q)
      BY <2>2 DEF Want
    <3>3. Held'
      BY <1>2, <3>1, <3>2 DEF IInv, Held, Resident
    <3>4. at' \in [Loaders -> Places]
      BY <2>2 DEF IInv, TypesOK, Places
    <3>5. \A t \in Threads : at'[t] \in Loading => at[t] \in Loading
      BY <1>1, <3>1 DEF Loaders
    <3> QED
      BY <1>2, <2>2, <3>3, <3>4, <3>5 DEF IInv, TypesOK
  <2> QED
    BY <2>1, <2>2 DEF FirstLook, seqs
<1>4. SameWeights'
  BY <1>2 DEF IInv, SameWeights
<1> QED
  BY <1>3, <1>4 DEF IInv

\* The lock goes to one loader, which looks again before it reads.
LEMMA AcquireKeeps ==
  ASSUME IInv, NEW p \in Loaders, Acquire(p)
  PROVE  IInv'
<1>1. at[p] = "wait" /\ at[p] \in Loading /\ lock[Want(p)] = NoOne
  BY DEF Acquire, Loading
<1>2. loaded' = loaded /\ l2' = l2 /\ l3' = l3
  BY DEF Acquire, Touch, cache, files
<1>3. Want(p) \in Experts
  BY <1>1, WantIsExpert DEF IInv
<1>4. Held' /\ TypesOK'
  <2>1. CASE Loaded(p) /\ lock' = lock
    <3>1. \A q \in Loaders : at'[q] = "fetch" => at[q] = "fetch" /\ Want(q)' = Want(q)
      BY <1>1, <2>1, LoadedTypes DEF IInv
    <3>2. Held'
      BY <1>2, <2>1, <3>1 DEF IInv, Held, Resident
    <3>3. TypesOK'
      BY <1>1, <1>2, <2>1, LoadedTypes DEF IInv, TypesOK
    <3> QED
      BY <3>2, <3>3
  <2>2. CASE /\ ~FoundAfterAll(p)
             /\ lock' = [lock EXCEPT ![Want(p)] = p]
             /\ at' = [at EXCEPT ![p] = "fetch"]
             /\ todo' = todo
    <3>1. at'[p] = "fetch" /\ \A q \in Loaders \ {p} : at'[q] = at[q]
      BY <2>2 DEF IInv, TypesOK
    <3>2. \A q \in Loaders : Want(q)' = Want(q)
      BY <2>2 DEF Want
    <3>3. /\ lock'[Want(p)] = p
          /\ \A e \in Experts \ {Want(p)} : lock'[e] = lock[e]
      BY <1>3, <2>2 DEF IInv, TypesOK
    <3>4. \A q \in Loaders \ {p} :
            at[q] = "fetch" => Want(q) \in Experts \ {Want(p)} /\ lock[Want(q)] = q
      BY <1>1, Kinds, WantIsExpert DEF IInv, Held, Loading
    <3>5. Held'
      BY <1>2, <2>2, <3>1, <3>2, <3>3, <3>4 DEF IInv, Held, FoundAfterAll, Resident
    <3>6. at' \in [Loaders -> Places] /\ lock' \in [Experts -> Loaders \cup {NoOne}]
      BY <2>2 DEF IInv, TypesOK, Places
    <3>7. \A t \in Threads : at'[t] \in Loading => at[t] \in Loading
      BY <1>1, <3>1 DEF Loaders
    <3> QED
      BY <1>2, <2>2, <3>5, <3>6, <3>7 DEF IInv, TypesOK
  <2> QED
    BY <2>1, <2>2 DEF Acquire, seqs
<1>5. SameWeights'
  BY <1>2 DEF IInv, SameWeights
<1> QED
  BY <1>4, <1>5 DEF IInv

\* What was read is resident, and besides it nothing that was not before.
LEMMA Inserted ==
  ASSUME NEW e \in Experts, NEW w, Insert(e, w)
  PROVE  /\ e \in DOMAIN loaded' /\ loaded'[e] = w
         /\ \A x \in DOMAIN loaded' \ {e} : x \in DOMAIN loaded /\ loaded'[x] = loaded[x]
<1>1. PICK gone : loaded' = [x \in (DOMAIN loaded \ gone) \cup {e} |->
                               IF x = e THEN w ELSE loaded[x]]
  BY DEF Insert
<1> QED
  BY <1>1

\* A read ends with its lock given up and one expert more, or none.
LEMMA FetchKeeps ==
  ASSUME IInv, NEW p \in Loaders, Fetch(p)
  PROVE  IInv'
<1>1. at[p] = "fetch" /\ at[p] \in Loading
  BY DEF Fetch, Loading
<1>2. Want(p) \in Experts
  BY <1>1, WantIsExpert DEF IInv
<1>3. PICK r \in Reads(Want(p)) :
        /\ l2' = [l2 EXCEPT ![Want(p)] = r.l2]
        /\ lock' = [lock EXCEPT ![Want(p)] = NoOne]
        /\ \/ r.got # "error" /\ Insert(Want(p), r.got) /\ Loaded(p)
           \/ r.got = "error" /\ Failed(p) /\ UNCHANGED cache
  BY DEF Fetch, Unlocked
<1>4. l3' = l3
  BY DEF Fetch
<1>5. /\ r.l2 \in Files
      /\ r.got # "error" => ({r.l2, l3[Want(p)], r.got} \cap Weights # Weights)
      /\ r.got = "error" => r.l2 = l2[Want(p)]
  BY <1>2, ReadsAgree DEF IInv
<1>6. \A x \in DOMAIN loaded' :
        \/ x = Want(p) /\ r.got # "error" /\ loaded'[x] = r.got
        \/ x \in DOMAIN loaded /\ loaded'[x] = loaded[x] /\ (x # Want(p) \/ r.got = "error")
  BY <1>2, <1>3, Inserted DEF cache
<1>7. /\ at' \in [Loaders -> Places]
      /\ DOMAIN todo' = Threads
      /\ \A t \in Threads : at'[t] \in Loading => todo'[t] \in Seq(Experts) \ {<<>>}
      /\ at'[p] # "fetch"
      /\ \A q \in Loaders \ {p} : at'[q] = at[q] /\ Want(q)' = Want(q)
  BY <1>1, <1>3, LoadedTypes, FailedTypes DEF IInv
<1>8. TypesOK'
  <2>1. l2' \in [Experts -> Files] /\ lock' \in [Experts -> Loaders \cup {NoOne}]
    BY <1>2, <1>3, <1>5 DEF IInv, TypesOK
  <2> QED
    BY <1>4, <1>7, <2>1 DEF IInv, TypesOK
<1>9. Held'
  <2> SUFFICES ASSUME NEW q \in Loaders, at'[q] = "fetch"
               PROVE  lock'[Want(q)'] = q /\ Want(q)' \notin DOMAIN loaded'
    BY DEF Held, Resident
  <2>1. q # p /\ at[q] = "fetch" /\ Want(q)' = Want(q)
    BY <1>7
  <2>2. Want(q) \in Experts /\ lock[Want(q)] = q /\ Want(q) \notin DOMAIN loaded
    BY <2>1, WantIsExpert DEF IInv, Held, Loading, Resident
  <2>3. Want(q) # Want(p)
    BY <1>1, <2>1, <2>2 DEF IInv, Held
  <2>4. lock'[Want(q)] = q
    BY <1>3, <2>2, <2>3 DEF IInv, TypesOK
  <2> QED
    BY <1>6, <2>1, <2>2, <2>3, <2>4
<1>10. SameWeights'
  <2> SUFFICES ASSUME NEW e \in Experts
               PROVE  ({l2'[e], l3'[e]} \cup {loaded'[x] : x \in {e} \cap DOMAIN loaded'})
                        \cap Weights # Weights
    BY DEF SameWeights
  <2>1. ({l2[e], l3[e]} \cup {loaded[x] : x \in {e} \cap DOMAIN loaded}) \cap Weights # Weights
    BY DEF IInv, SameWeights
  <2>2. CASE e = Want(p) /\ r.got # "error"
    <3>1. l2'[e] = r.l2 /\ l3'[e] = l3[e]
      BY <1>2, <1>3, <1>4, <2>2 DEF IInv, TypesOK
    <3>2. {loaded'[x] : x \in {e} \cap DOMAIN loaded'} \subseteq {r.got}
      BY <1>6, <2>2
    <3>3. {l2'[e], l3'[e]} \cup {loaded'[x] : x \in {e} \cap DOMAIN loaded'}
            \subseteq {r.l2, l3[Want(p)], r.got}
      BY <2>2, <3>1, <3>2
    <3> QED
      BY <1>5, <2>2, <3>3
  <2>3. CASE ~(e = Want(p) /\ r.got # "error")
    <3>1. l2'[e] = l2[e] /\ l3'[e] = l3[e]
      BY <1>2, <1>3, <1>4, <1>5, <2>3 DEF IInv, TypesOK
    <3>2. {loaded'[x] : x \in {e} \cap DOMAIN loaded'}
            \subseteq {loaded[x] : x \in {e} \cap DOMAIN loaded}
      BY <1>6, <2>3
    <3> QED
      BY <2>1, <3>1, <3>2
  <2> QED
    BY <2>2, <2>3
<1> QED
  BY <1>8, <1>9, <1>10 DEF IInv

-----------------------------------------------------------------------------
(* The other steps.                                                        *)

\* A step that moves loaders between places where nothing is loaded.
LEMMA OtherwiseKeeps ==
  ASSUME IInv, UNCHANGED <<cache, files, lock>>,
         at' \in [Loaders -> Places], DOMAIN todo' = Threads,
         \A q \in Loaders : at'[q] \in Loading =>
           \/ at'[q] = at[q] /\ (q \in Threads => todo'[q] = todo[q])
           \/ at'[q] = "look" /\ (q \in Threads => todo'[q] \in Seq(Experts) \ {<<>>})
  PROVE  IInv'
<1>1. l2' = l2 /\ l3' = l3 /\ lock' = lock
  BY DEF files
<1>2. \A q \in Loaders : at'[q] = "fetch" => at[q] = "fetch" /\ Want(q)' = Want(q)
  BY DEF Want, Loading
<1>3. Held' /\ SameWeights'
  BY <1>2, NobodyReadsKeeps DEF IInv, NobodyReads
<1>4. \A t \in Threads : at'[t] \in Loading => todo'[t] \in Seq(Experts) \ {<<>>}
  BY DEF IInv, TypesOK, Loaders
<1>5. TypesOK'
  BY <1>1, <1>4 DEF IInv, TypesOK
<1> QED
  BY <1>3, <1>5 DEF IInv

\* A token routes to at least one expert.
LEMMA RouteKeeps ==
  ASSUME IInv, NEW t \in Threads, Route(t)
  PROVE  IInv'
<1>1. PICK chosen \in [1..TopK -> Experts] : todo' = [todo EXCEPT ![t] = chosen]
  BY DEF Route
<1>2. chosen \in Seq(Experts) \ {<<>>}
  <2>1. TopK \in Nat \ {0}
    BY TiersAssumption
  <2>2. chosen \in Seq(Experts) /\ Len(chosen) = TopK
    BY <2>1, IsASeq
  <2> QED
    BY <2>1, <2>2
<1>3. at' = [at EXCEPT ![t] = "look"] /\ UNCHANGED <<cache, files, lock>>
  BY DEF Route
<1>4. at' \in [Loaders -> Places] /\ DOMAIN todo' = Threads
  BY <1>1, <1>3 DEF IInv, TypesOK, Places
<1>5. \A q \in Loaders \ {t} : at'[q] = at[q] /\ (q \in Threads => todo'[q] = todo[q])
  BY <1>1, <1>3 DEF IInv, TypesOK
<1>6. at'[t] = "look" /\ todo'[t] = chosen
  BY <1>1, <1>3 DEF IInv, TypesOK, Loaders
<1> QED
  BY <1>2, <1>3, <1>4, <1>5, <1>6, OtherwiseKeeps

\* What a step has learned, and what it is to warm, loads nothing yet.
LEMMA LearnKeeps ==
  ASSUME IInv, NEW t \in Threads, Learn(t)
  PROVE  IInv'
<1>1. PICK ahead : /\ todo' = [todo EXCEPT ![t] = ahead]
                   /\ at' = [at EXCEPT ![t] = IF ahead = <<>> THEN "idle" ELSE "warm"]
  BY DEF Learn
<1>2. UNCHANGED <<cache, files, lock>>
  BY DEF Learn
<1>3. at' \in [Loaders -> Places] /\ DOMAIN todo' = Threads
  BY <1>1 DEF IInv, TypesOK, Places
<1>4. \A q \in Loaders \ {t} : at'[q] = at[q] /\ (q \in Threads => todo'[q] = todo[q])
  BY <1>1 DEF IInv, TypesOK
<1>5. at'[t] \notin Loading
  BY <1>1 DEF IInv, TypesOK, Loaders, Loading
<1> QED
  BY <1>2, <1>3, <1>4, <1>5, OtherwiseKeeps

\* A look at what is to be warmed loads nothing either.
LEMMA WarmLookKeeps ==
  ASSUME IInv, NEW t \in Threads, WarmLook(t)
  PROVE  IInv'
<1>1. /\ \/ todo' = [todo EXCEPT ![t] = Tail(@)] \/ todo' = todo
      /\ \E place \in {"idle", "warm", "claim"} : at' = [at EXCEPT ![t] = place]
  BY DEF WarmLook, Warmed
<1>2. UNCHANGED <<cache, files, lock>>
  BY DEF WarmLook
<1>3. at' \in [Loaders -> Places] /\ DOMAIN todo' = Threads
  BY <1>1 DEF IInv, TypesOK, Places
<1>4. \A q \in Loaders \ {t} : at'[q] = at[q] /\ (q \in Threads => todo'[q] = todo[q])
  BY <1>1 DEF IInv, TypesOK
<1>5. at'[t] \notin Loading
  BY <1>1 DEF IInv, TypesOK, Loaders, Loading
<1> QED
  BY <1>2, <1>3, <1>4, <1>5, OtherwiseKeeps

\* A claim queues a background load.
LEMMA WarmClaimKeeps ==
  ASSUME IInv, NEW t \in Threads, WarmClaim(t)
  PROVE  IInv'
<1>1. PICK e : \E place \in {"idle", "warm"} :
        \/ at' = [at EXCEPT ![t] = place]
        \/ at' = [at EXCEPT ![t] = place, ![e] = "queued"]
  BY DEF WarmClaim
<1>2. todo' = [todo EXCEPT ![t] = Tail(@)] /\ UNCHANGED <<cache, files, lock>>
  BY DEF WarmClaim
<1>3. at' \in [Loaders -> Places] /\ DOMAIN todo' = Threads
  BY <1>1, <1>2 DEF IInv, TypesOK, Places
<1>4. \A q \in Loaders :
        \/ at'[q] \in {"idle", "warm", "queued"}
        \/ q # t /\ at'[q] = at[q]
  BY <1>1 DEF IInv, TypesOK
<1>5. \A q \in Threads \ {t} : todo'[q] = todo[q]
  BY <1>2 DEF IInv, TypesOK
<1> QED
  BY <1>2, <1>3, <1>4, <1>5, OtherwiseKeeps DEF Loading

\* A pool thread takes a background load up.
LEMMA BeginKeeps ==
  ASSUME IInv, NEW e \in Experts, Begin(e)
  PROVE  IInv'
<1>1. PICK place \in {"release", "look"} : at' = [at EXCEPT ![e] = place]
  BY DEF Begin
<1>2. todo' = todo /\ UNCHANGED <<cache, files, lock>>
  BY DEF Begin, seqs
<1>3. at' \in [Loaders -> Places] /\ DOMAIN todo' = Threads
  BY <1>1, <1>2 DEF IInv, TypesOK, Places
<1>4. at'[e] = place /\ \A q \in Loaders \ {e} : at'[q] = at[q]
  BY <1>1 DEF IInv, TypesOK, Loaders
<1>5. e \notin Threads
  BY Kinds
<1> QED
  BY <1>2, <1>3, <1>4, <1>5, OtherwiseKeeps DEF Loading

\* A background load is over.
LEMMA ReleaseKeeps ==
  ASSUME IInv, NEW e \in Experts, Release(e)
  PROVE  IInv'
<1>1. at' = [at EXCEPT ![e] = "idle"] /\ todo' = todo /\ UNCHANGED <<cache, files, lock>>
  BY DEF Release, seqs
<1>2. at' \in [Loaders -> Places] /\ DOMAIN todo' = Threads
  BY <1>1 DEF IInv, TypesOK, Places
<1>3. at'[e] = "idle" /\ \A q \in Loaders \ {e} : at'[q] = at[q]
  BY <1>1 DEF IInv, TypesOK, Loaders
<1> QED
  BY <1>1, <1>2, <1>3, OtherwiseKeeps DEF Loading

-----------------------------------------------------------------------------
(* The invariant, and what follows from it.                                *)

\* Whatever files earlier runs left, nothing is resident and nobody loads.
LEMMA InitHolds == Init => IInv
<1> SUFFICES ASSUME Init PROVE IInv
  OBVIOUS
<1>1. PICK s \in Starts : l2 = [e \in Experts |-> s[e].l2] /\ l3 = [e \in Experts |-> s[e].l3]
  BY DEF Init
<1>2. s \in [Experts -> [l2 : Files, l3 : Files]]
      /\ \A e \in Experts : {s[e].l2, s[e].l3} # Weights
  BY TiersAssumption
<1>3. TypesOK /\ Held
  <2>1. \A p \in Loaders : at[p] = "idle"
    BY DEF Init
  <2>2. l2 \in [Experts -> Files] /\ l3 \in [Experts -> Files]
    BY <1>1, <1>2
  <2>3. at \in [Loaders -> Places] /\ lock \in [Experts -> Loaders \cup {NoOne}]
    BY DEF Init, Places
  <2>4. DOMAIN todo = Threads
    BY DEF Init
  <2> QED
    BY <2>1, <2>2, <2>3, <2>4 DEF TypesOK, Held, Loading, Loaders
<1>4. SameWeights
  <2> SUFFICES ASSUME NEW e \in Experts
               PROVE  ({l2[e], l3[e]} \cup {loaded[x] : x \in {e} \cap DOMAIN loaded})
                        \cap Weights # Weights
    BY DEF SameWeights
  <2>1. DOMAIN loaded = {}
    BY DEF Init
  <2>2. {l2[e], l3[e]} = {s[e].l2, s[e].l3}
    BY <1>1
  <2>3. {l2[e], l3[e]} \cap Weights # Weights
    BY <1>2, <2>2 DEF Weights
  <2> QED
    BY <2>1, <2>3
<1> QED
  BY <1>3, <1>4 DEF IInv

\* Every step keeps it.
LEMMA StepKeeps == IInv /\ [Next]_vars => IInv'
<1> SUFFICES ASSUME IInv, [Next]_vars PROVE IInv'
  OBVIOUS
<1>1. ASSUME NEW p \in Loaders, Load(p) PROVE IInv'
  BY <1>1, FirstLookKeeps, AcquireKeeps, FetchKeeps DEF Load
<1>2. ASSUME NEW t \in Threads, Route(t) \/ ThreadStep(t) PROVE IInv'
  BY <1>1, <1>2, RouteKeeps, LearnKeeps, WarmLookKeeps, WarmClaimKeeps
     DEF ThreadStep, Loaders
<1>3. ASSUME NEW e \in Experts, TaskStep(e) PROVE IInv'
  BY <1>1, <1>3, BeginKeeps, ReleaseKeeps DEF TaskStep, Loaders
<1>4. CASE UNCHANGED vars
  <2>1. UNCHANGED <<cache, files, lock>> /\ at' = at /\ todo' = todo
    BY <1>4 DEF vars, seqs
  <2> QED
    BY <2>1, OtherwiseKeeps DEF IInv, TypesOK
<1> QED
  BY <1>2, <1>3, <1>4 DEF Next

\* The inductive invariant: who reads an expert has its lock (memory:177), and
\* the copies of an expert that parse are the same (memory:131).
THEOREM TiersInductive == Spec => []IInv
  BY InitHolds, StepKeeps, PTL DEF Spec

\* However many threads and background loads miss an expert together, and
\* whatever is evicted or fails meanwhile, one of them reads it, and not after
\* it has become resident (the load lock and the second look of memory:177).
THEOREM OneAlwaysReads == Spec => []OneReads
<1>1. IInv => OneReads
  <2> SUFFICES ASSUME IInv, NEW p \in Loaders, at[p] = "fetch"
               PROVE  /\ ~Resident(Want(p))
                      /\ \A q \in Loaders \ {p} : at[q] = "fetch" => Want(q) # Want(p)
    BY DEF OneReads
  <2> QED
    BY DEF IInv, Held
<1> QED
  BY <1>1, TiersInductive, PTL

\* However reads, writes and evictions fall, no published expert is replaced by
\* a synthesised one, in memory or in a tier (load_uncached, memory:131).
THEOREM WeightsNeverDiffer == Spec => []SameWeights
<1>1. IInv => SameWeights
  BY DEF IInv
<1> QED
  BY <1>1, TiersInductive, PTL

-----------------------------------------------------------------------------
(* The cache's own accounts, and what a step works on.                     *)

(* The recency list names each resident expert once, and the bytes are     *)
(* those of the experts it names.                                          *)
CacheInv ==
  /\ DOMAIN loaded \subseteq Experts /\ Range(loaded) \subseteq Weights
  /\ lru \in Seq(Experts) /\ IsInjective(lru) /\ Range(lru) = DOMAIN loaded
  /\ bytes = ExpertBytes * Len(lru)
  /\ bytes <= Budget \/ Len(lru) = 1

(* What a step works on.                                                   *)
StepInv ==
  /\ todo \in [Threads -> Seq(Experts)] /\ used \in [Threads -> Seq(Experts)]
  /\ last \in [Threads -> Seq(Experts)]
  /\ \A t \in Threads : at[t] \in {"warm", "claim"} => todo[t] # <<>>
  /\ counts \in [Experts -> [Experts -> Nat]]
  /\ steps \in 0..MaxSteps /\ faults \in 0..MaxFaults

StoreInv == CacheInv /\ StepInv /\ ClaimsCover

-----------------------------------------------------------------------------
(* Queues that name nobody twice.                                          *)

\* What retain leaves of a queue that names nobody twice (cache:88).
LEMMA CutOut ==
  ASSUME NEW S, NEW s \in Seq(S), IsInjective(s), NEW x
  PROVE  /\ Without(s, x) \in Seq(S)
         /\ IsInjective(Without(s, x))
         /\ Range(Without(s, x)) = Range(s) \ {x}
         /\ Len(Without(s, x)) = IF x \in Range(s) THEN Len(s) - 1 ELSE Len(s)
<1>1. CASE x \notin Range(s)
  <2>1. Without(s, x) = s
    BY <1>1 DEF Without
  <2> QED
    BY <1>1, <2>1
<1>2. CASE x \in Range(s)
  <2>1. \E j \in DOMAIN s : s[j] = x
    BY <1>2 DEF Range
  <2> DEFINE i == CHOOSE j \in DOMAIN s : s[j] = x
  <2>2. i \in DOMAIN s /\ s[i] = x
    BY <2>1
  <2> HIDE DEF i
  <2>3. DOMAIN s = 1..Len(s) /\ Len(s) \in Nat /\ \A j \in 1..Len(s) : s[j] \in S
    BY LenProperties, ElementOfSeq
  <2> DEFINE front == SubSeq(s, 1, i - 1)
             back == SubSeq(s, i + 1, Len(s))
  <2>4. /\ front \in Seq(S) /\ Len(front) = i - 1
        /\ \A j \in 1..(i - 1) : front[j] = s[j]
    BY <2>2, <2>3, SubSeqProperties
  <2>5. /\ back \in Seq(S) /\ Len(back) = Len(s) - i
        /\ \A j \in 1..(Len(s) - i) : back[j] = s[j + i]
    BY <2>2, <2>3, SubSeqProperties
  <2> DEFINE q == front \o back
  <2>6. Without(s, x) = q
    BY <1>2 DEF Without, i
  <2> HIDE DEF front, back
  <2>7. /\ q \in Seq(S) /\ Len(q) = Len(s) - 1
        /\ \A j \in 1..(Len(s) - 1) : q[j] = IF j < i THEN s[j] ELSE s[j + 1]
    <3>1. /\ q \in Seq(S) /\ Len(q) = Len(front) + Len(back)
          /\ \A j \in 1..Len(front) + Len(back) :
               q[j] = IF j <= Len(front) THEN front[j] ELSE back[j - Len(front)]
      BY <2>4, <2>5, ConcatProperties
    <3>2. Len(front) + Len(back) = Len(s) - 1
      BY <2>2, <2>3, <2>4, <2>5
    <3>3. ASSUME NEW j \in 1..(Len(s) - 1)
          PROVE  q[j] = IF j < i THEN s[j] ELSE s[j + 1]
      <4>1. CASE j < i
        BY <2>2, <2>3, <2>4, <3>1, <3>2, <4>1
      <4>2. CASE ~(j < i)
        <5>1. q[j] = back[j - (i - 1)]
          BY <2>2, <2>3, <2>4, <3>1, <3>2, <4>2
        <5>2. j - (i - 1) \in 1..(Len(s) - i)
          BY <2>2, <2>3, <4>2
        <5>3. back[j - (i - 1)] = s[(j - (i - 1)) + i]
          BY <2>5, <5>2
        <5>4. (j - (i - 1)) + i = j + 1
          BY <2>2, <2>3
        <5> QED
          BY <4>2, <5>1, <5>3, <5>4
      <4> QED
        BY <4>1, <4>2
    <3> QED
      BY <3>1, <3>2, <3>3
  <2>8. DOMAIN q = 1..(Len(s) - 1)
    BY <2>7, LenProperties
  <2> HIDE DEF q
  <2>9. IsInjective(q)
    <3> SUFFICES ASSUME NEW a \in 1..(Len(s) - 1), NEW b \in 1..(Len(s) - 1), q[a] = q[b]
                 PROVE  a = b
      BY <2>8 DEF IsInjective
    <3> DEFINE A == IF a < i THEN a ELSE a + 1
               B == IF b < i THEN b ELSE b + 1
    <3>1. A \in DOMAIN s /\ B \in DOMAIN s
      BY <2>2, <2>3
    <3>2. s[A] = s[B]
      BY <2>7
    <3>3. A = B
      BY <3>1, <3>2 DEF IsInjective
    <3> QED
      BY <2>2, <2>3, <3>3
  <2>10. Range(q) = Range(s) \ {x}
    <3>1. ASSUME NEW y \in Range(q) PROVE y \in Range(s) \ {x}
      <4>1. PICK a \in 1..(Len(s) - 1) : q[a] = y
        BY <2>8 DEF Range
      <4> DEFINE A == IF a < i THEN a ELSE a + 1
      <4>2. A \in DOMAIN s /\ A # i /\ s[A] = y
        BY <2>2, <2>3, <2>7, <4>1
      <4>3. s[A] # s[i]
        BY <2>2, <4>2 DEF IsInjective
      <4> QED
        BY <2>2, <4>2, <4>3 DEF Range
    <3>2. ASSUME NEW y \in Range(s) \ {x} PROVE y \in Range(q)
      <4>1. PICK a \in 1..Len(s) : s[a] = y
        BY <2>3 DEF Range
      <4>2. a # i
        BY <2>2, <4>1
      <4>3. CASE a < i
        <5>1. a \in 1..(Len(s) - 1) /\ q[a] = s[a]
          BY <2>2, <2>3, <2>7, <4>3
        <5> QED
          BY <2>8, <4>1, <5>1 DEF Range
      <4>4. CASE a > i
        <5>1. a - 1 \in 1..(Len(s) - 1) /\ q[a - 1] = s[(a - 1) + 1] /\ (a - 1) + 1 = a
          BY <2>2, <2>3, <2>7, <4>4
        <5> QED
          BY <2>8, <4>1, <5>1 DEF Range
      <4> QED
        BY <2>2, <2>3, <4>2, <4>3, <4>4
    <3> QED
      BY <3>1, <3>2
  <2> QED
    BY <1>2, <2>6, <2>7, <2>9, <2>10
<1> QED
  BY <1>1, <1>2

\* The newcomer at the back of a queue that did not name it.
LEMMA PushedBack ==
  ASSUME NEW S, NEW s \in Seq(S), IsInjective(s), NEW x \in S \ Range(s)
  PROVE  /\ Append(s, x) \in Seq(S)
         /\ IsInjective(Append(s, x))
         /\ Range(Append(s, x)) = Range(s) \cup {x}
         /\ Len(Append(s, x)) = Len(s) + 1
<1> DEFINE q == Append(s, x)
<1>1. /\ q \in Seq(S) /\ Len(q) = Len(s) + 1 /\ q[Len(s) + 1] = x
      /\ \A i \in 1..Len(s) : q[i] = s[i]
  BY AppendProperties
<1>2. /\ DOMAIN s = 1..Len(s) /\ Len(s) \in Nat /\ DOMAIN q = 1..(Len(s) + 1)
  BY <1>1, LenProperties
<1> HIDE DEF q
<1>3. \A i \in 1..(Len(s) + 1) : i \in 1..Len(s) \/ i = Len(s) + 1
  BY <1>2
<1>4. \A i \in 1..Len(s) : s[i] # x
  BY <1>2 DEF Range
<1>5. IsInjective(q)
  BY <1>1, <1>2, <1>3, <1>4 DEF IsInjective
<1>6. Range(q) = Range(s) \cup {x}
  BY <1>1, <1>2, <1>3 DEF Range
<1> QED
  BY <1>1, <1>5, <1>6 DEF q

\* What is left of a queue when its front is popped names the others.
LEMMA RearOf ==
  ASSUME NEW S, NEW s \in Seq(S), IsInjective(s), NEW n \in 0..Len(s)
  PROVE  LET rear == SubSeq(s, n + 1, Len(s))
             front == SubSeq(s, 1, n)
         IN /\ rear \in Seq(S) /\ IsInjective(rear) /\ Len(rear) = Len(s) - n
            /\ Range(rear) = Range(s) \ Range(front)
<1> DEFINE rear == SubSeq(s, n + 1, Len(s))
           front == SubSeq(s, 1, n)
<1>1. DOMAIN s = 1..Len(s) /\ Len(s) \in Nat /\ \A j \in 1..Len(s) : s[j] \in S
  BY LenProperties, ElementOfSeq
<1>2. /\ rear \in Seq(S) /\ Len(rear) = Len(s) - n
      /\ \A j \in 1..(Len(s) - n) : rear[j] = s[j + n]
  <2>1. n + 1 \in Int /\ Len(s) \in Int /\ \A j \in (n + 1)..Len(s) : s[j] \in S
    BY <1>1
  <2>2. /\ rear \in Seq(S)
        /\ Len(rear) = IF n + 1 <= Len(s) THEN Len(s) - (n + 1) + 1 ELSE 0
        /\ \A j \in 1..(Len(s) - (n + 1) + 1) : rear[j] = s[(n + 1) + j - 1]
    BY <2>1, SubSeqProperties
  <2> HIDE DEF rear
  <2>3. Len(rear) = Len(s) - n
    <3>1. Len(s) \in Nat /\ n \in Nat /\ n <= Len(s)
      BY <1>1
    <3>2. Len(rear) = IF n + 1 <= Len(s) THEN Len(s) - (n + 1) + 1 ELSE 0
      BY <2>2
    <3> QED
      BY <3>1, <3>2
  <2>4. ASSUME NEW j \in 1..(Len(s) - n) PROVE rear[j] = s[j + n]
    <3>1. j \in 1..(Len(s) - (n + 1) + 1) /\ (n + 1) + j - 1 = j + n
      BY <1>1
    <3>2. rear[j] = s[(n + 1) + j - 1]
      BY <2>2, <3>1
    <3> QED
      BY <3>1, <3>2
  <2> QED
    BY <2>2, <2>3, <2>4
<1>3. /\ front \in Seq(S) /\ Len(front) = n
      /\ \A j \in 1..n : front[j] = s[j]
  BY <1>1, SubSeqProperties
<1>4. DOMAIN rear = 1..(Len(s) - n) /\ DOMAIN front = 1..n
  BY <1>2, <1>3, LenProperties
<1> HIDE DEF rear, front
<1>5. \A j \in 1..(Len(s) - n) : j + n \in 1..Len(s)
  BY <1>1
<1>6. IsInjective(rear)
  <2> SUFFICES ASSUME NEW a \in 1..(Len(s) - n), NEW b \in 1..(Len(s) - n), rear[a] = rear[b]
               PROVE  a = b
    BY <1>4 DEF IsInjective
  <2>1. a + n = b + n
    BY <1>1, <1>2, <1>5 DEF IsInjective
  <2> QED
    BY <1>1, <2>1
<1>7. Range(rear) = Range(s) \ Range(front)
  <2>1. ASSUME NEW y \in Range(rear) PROVE y \in Range(s) \ Range(front)
    <3>1. PICK a \in 1..(Len(s) - n) : s[a + n] = y
      BY <1>2, <1>4 DEF Range
    <3>2. \A b \in 1..n : s[b] # y
      <4> SUFFICES ASSUME NEW b \in 1..n, s[b] = y PROVE FALSE
        OBVIOUS
      <4>1. b \in DOMAIN s /\ a + n \in DOMAIN s /\ b # a + n
        BY <1>1, <1>5
      <4> QED
        BY <3>1, <4>1 DEF IsInjective
    <3> QED
      BY <1>1, <1>3, <1>4, <1>5, <3>1, <3>2 DEF Range
  <2>2. ASSUME NEW y \in Range(s) \ Range(front) PROVE y \in Range(rear)
    <3>1. PICK a \in 1..Len(s) : s[a] = y
      BY <1>1 DEF Range
    <3>2. a \notin 1..n
      BY <1>3, <1>4, <3>1 DEF Range
    <3>3. a - n \in 1..(Len(s) - n) /\ (a - n) + n = a
      BY <1>1, <3>2
    <3>4. rear[a - n] = s[a]
      BY <1>2, <3>3
    <3> QED
      BY <1>4, <3>1, <3>3, <3>4 DEF Range
  <2> QED
    BY <2>1, <2>2
<1> QED
  BY <1>2, <1>6, <1>7 DEF rear, front

\* A set of naturals that is not empty has a least one, and Min is it.
LEMMA LeastOf ==
  ASSUME NEW T, T \subseteq Nat, T # {}
  PROVE  Min(T) \in T /\ \A y \in T : Min(T) <= y
<1>1. PICK x \in T : \A y \in T : ~(<<y, x>> \in OpToRel(<, Nat))
  BY NatLessThanWellFounded, WFMin
<1>2. \A y \in T : x <= y
  <2> SUFFICES ASSUME NEW y \in T PROVE x <= y
    OBVIOUS
  <2>1. ~(y < x)
    BY <1>1 DEF OpToRel
  <2> QED
    BY <2>1
<1> QED
  BY <1>2 DEF Min

\* Victims leave when the newcomer fits, or nobody else is left to go.
LEMMA VictimsSuffice ==
  ASSUME NEW queue \in Seq(Experts), NEW held \in Int
  PROVE  LET n == Victims(queue, held)
         IN /\ n \in 0..Len(queue)
            /\ n = Len(queue) \/ held - n * ExpertBytes + ExpertBytes <= Budget
<1> DEFINE T == {n \in 0..Len(queue) :
                   n = Len(queue) \/ held - n * ExpertBytes + ExpertBytes <= Budget}
<1>1. Len(queue) \in T /\ T \subseteq Nat
  BY LenProperties
<1>2. Min(T) \in T
  BY <1>1, LeastOf
<1>3. Victims(queue, held) = Min(T)
  BY DEF Victims
<1> QED
  BY <1>2, <1>3

\* The bytes of so many experts.
LEMMA BytesOf ==
  ASSUME NEW k \in Nat, NEW n \in 0..k
  PROVE  /\ ExpertBytes * k \in Nat
         /\ ExpertBytes * k - n * ExpertBytes + ExpertBytes = ExpertBytes * (k - n + 1)
         /\ ExpertBytes * k - ExpertBytes = ExpertBytes * (k - 1)
         /\ ExpertBytes * 1 = ExpertBytes
  BY TiersAssumption

\* A queue that names nobody twice is as long as the set it names.
LEMMA SizeOf ==
  ASSUME NEW S, NEW s \in Seq(S), IsInjective(s)
  PROVE  IsFiniteSet(Range(s)) /\ Cardinality(Range(s)) = Len(s)
<1>1. DOMAIN s = 1..Len(s) /\ Len(s) \in Nat
  BY LenProperties
<1>2. s \in [1..Len(s) -> Range(s)]
  BY <1>1, LenProperties DEF Range
<1>3. s \in Bijection(1..Len(s), Range(s))
  BY <1>1, <1>2 DEF Bijection, Injection, Surjection, IsInjective, Range
<1>4. IsFiniteSet(1..Len(s)) /\ Cardinality(1..Len(s)) = Len(s)
  BY <1>1, FS_Interval
<1> QED
  BY <1>3, <1>4, FS_Bijection DEF ExistsBijection

\* An insertion evicts and counts what it evicts (ExpertCache::insert).
LEMMA InsertKeepsCache ==
  ASSUME CacheInv, NEW e \in Experts, NEW w \in Weights, Insert(e, w)
  PROVE  CacheInv'
<1> DEFINE queue == Without(lru, e)
           held == IF Resident(e) THEN bytes - ExpertBytes ELSE bytes
           n == Victims(queue, held)
           gone == Range(SubSeq(queue, 1, n))
           rear == SubSeq(queue, n + 1, Len(queue))
<1>1. /\ queue \in Seq(Experts) /\ IsInjective(queue)
      /\ Range(queue) = DOMAIN loaded \ {e}
      /\ Len(queue) = IF Resident(e) THEN Len(lru) - 1 ELSE Len(lru)
  BY CutOut DEF CacheInv, Resident
<1>2. Len(queue) \in Nat /\ Len(lru) \in Nat
  BY <1>1, LenProperties DEF CacheInv
<1>3. lru' = Append(rear, e) /\ bytes' = held - n * ExpertBytes + ExpertBytes
      /\ loaded' = [x \in (DOMAIN loaded \ gone) \cup {e} |->
                      IF x = e THEN w ELSE loaded[x]]
  BY DEF Insert
<1> HIDE DEF queue
<1>4. held = ExpertBytes * Len(queue) /\ held \in Int
  <2>1. bytes = ExpertBytes * Len(lru)
    BY DEF CacheInv
  <2>2. CASE Resident(e)
    <3>1. Len(lru) \in Nat /\ 0 \in 0..Len(lru) /\ Len(queue) = Len(lru) - 1
      BY <1>1, <1>2, <2>2
    <3>2. ExpertBytes * Len(lru) - ExpertBytes = ExpertBytes * (Len(lru) - 1)
      BY <3>1, BytesOf
    <3>3. ExpertBytes * Len(queue) \in Nat
      BY <1>2, BytesOf
    <3> QED
      BY <2>1, <2>2, <3>1, <3>2, <3>3
  <2>3. CASE ~Resident(e)
    BY <1>1, <1>2, <2>1, <2>3, BytesOf
  <2> QED
    BY <2>2, <2>3
<1> HIDE DEF held
<1>5. n \in 0..Len(queue) /\ (n = Len(queue) \/ held - n * ExpertBytes + ExpertBytes <= Budget)
  BY <1>1, <1>4, VictimsSuffice
<1> HIDE DEF n
<1>6. /\ rear \in Seq(Experts) /\ IsInjective(rear) /\ Len(rear) = Len(queue) - n
      /\ Range(rear) = Range(queue) \ gone
  BY <1>1, <1>5, RearOf
<1> HIDE DEF rear, gone
<1>7. /\ lru' \in Seq(Experts) /\ IsInjective(lru')
      /\ Range(lru') = Range(rear) \cup {e} /\ Len(lru') = Len(queue) - n + 1
  BY <1>1, <1>3, <1>6, PushedBack
<1>8. bytes' = ExpertBytes * Len(lru')
  BY <1>2, <1>3, <1>4, <1>5, <1>7, BytesOf
<1>9. bytes' <= Budget \/ Len(lru') = 1
  BY <1>2, <1>3, <1>5, <1>7
<1>10. DOMAIN loaded' = (DOMAIN loaded \ gone) \cup {e}
       /\ Range(loaded') \subseteq Range(loaded) \cup {w}
  BY <1>3 DEF Range
<1>11. Range(lru') = DOMAIN loaded'
  BY <1>1, <1>6, <1>7, <1>10
<1> QED
  BY <1>7, <1>8, <1>9, <1>10, <1>11 DEF CacheInv

\* A hit reorders the queue and changes nothing else (ExpertCache::get).
LEMMA TouchKeepsCache ==
  ASSUME CacheInv, NEW e \in Experts, Resident(e), Touch(e)
  PROVE  CacheInv'
<1> DEFINE queue == Without(lru, e)
<1>1. /\ queue \in Seq(Experts) /\ IsInjective(queue)
      /\ Range(queue) = DOMAIN loaded \ {e} /\ Len(queue) = Len(lru) - 1
  BY CutOut DEF CacheInv, Resident
<1>2. lru' = Append(queue, e) /\ loaded' = loaded /\ bytes' = bytes
  BY DEF Touch
<1> HIDE DEF queue
<1>3. /\ lru' \in Seq(Experts) /\ IsInjective(lru')
      /\ Range(lru') = Range(queue) \cup {e} /\ Len(lru') = Len(queue) + 1
  BY <1>1, <1>2, PushedBack
<1>4. Len(lru') = Len(lru)
  BY <1>1, <1>3, LenProperties DEF CacheInv
<1>5. Range(lru') = DOMAIN loaded'
  BY <1>1, <1>2, <1>3 DEF Resident
<1> QED
  BY <1>2, <1>3, <1>4, <1>5 DEF CacheInv

\* What the recency list names and counts is what is resident.
LEMMA StoreIsExact ==
  IInv /\ StoreInv => CacheExact
<1> SUFFICES ASSUME IInv, StoreInv PROVE CacheExact
  OBVIOUS
<1>1. Len(lru) \in Nat
  BY LenProperties DEF StoreInv, CacheInv
<1>2. bytes \in Nat
  BY <1>1, BytesOf DEF StoreInv, CacheInv
<1>3. Cardinality(DOMAIN loaded) = Len(lru)
  BY SizeOf DEF StoreInv, CacheInv
<1>4. inflight \subseteq Experts
  BY DEF StoreInv, ClaimsCover
<1>5. \A t \in Threads : {todo[t], used[t], last[t]} \subseteq Seq(Experts)
  BY DEF StoreInv, StepInv
<1>6. TypeOK
  BY <1>2, <1>4, <1>5 DEF TypeOK, IInv, TypesOK, StoreInv, CacheInv, StepInv
<1> QED
  BY <1>3, <1>6 DEF CacheExact, StoreInv, CacheInv

\* At the start nothing is resident, claimed or under way.
LEMMA NothingResident == ASSUME Init PROVE StoreInv
<1>1. CacheInv
  <2>1. loaded = [e \in {} |-> "own"] /\ lru = <<>> /\ bytes = 0
    BY DEF Init
  <2>2. DOMAIN loaded = {} /\ Range(loaded) = {} /\ Range(lru) = {}
    BY <2>1 DEF Range
  <2>3. lru \in Seq(Experts) /\ IsInjective(lru) /\ Len(lru) = 0
    BY <2>1, EmptySeq DEF IsInjective
  <2>4. ExpertBytes * 0 = 0 /\ 0 <= Budget
    BY TiersAssumption
  <2> QED
    BY <2>1, <2>2, <2>3, <2>4 DEF CacheInv
<1>2. StepInv
  <2>1. <<>> \in Seq(Experts)
    BY EmptySeq
  <2>2. 0 \in 0..MaxSteps /\ 0 \in 0..MaxFaults
    BY TiersAssumption
  <2>3. \A t \in Threads : at[t] = "idle"
    BY DEF Init, Loaders
  <2>4. /\ todo \in [Threads -> Seq(Experts)] /\ used \in [Threads -> Seq(Experts)]
        /\ last \in [Threads -> Seq(Experts)]
    BY <2>1 DEF Init
  <2>5. counts \in [Experts -> [Experts -> Nat]]
    BY DEF Init
  <2>6. steps = 0 /\ faults = 0
    BY DEF Init
  <2> QED
    BY <2>2, <2>3, <2>4, <2>5, <2>6 DEF StepInv
<1>3. ClaimsCover
  BY DEF Init, ClaimsCover, Loaders
<1> QED
  BY <1>1, <1>2, <1>3 DEF StoreInv

\* A step that leaves the cache alone.
LEMMA CacheKept == CacheInv /\ UNCHANGED cache => CacheInv'
  BY DEF CacheInv, cache

\* A step that leaves the claims covered.
LEMMA StillCovered ==
  ASSUME ClaimsCover, inflight' = inflight,
         \A e \in Experts : (at'[e] = "idle") <=> (at[e] = "idle")
  PROVE  ClaimsCover'
  BY DEF ClaimsCover

\* A load that succeeded or failed leaves the claims covered.
LEMMA LoadedKeeps ==
  ASSUME IInv, StepInv, ClaimsCover, inflight' = inflight,
         NEW p \in Loaders, at[p] \in Loading, Loaded(p) \/ Failed(p),
         counts' = counts, steps' = steps, faults' \in 0..MaxFaults
  PROVE  StepInv' /\ ClaimsCover'
<1>1. at \in [Loaders -> Places]
  BY DEF IInv, TypesOK
<1>2. CASE p \in Threads
  <2>1. todo[p] \in Seq(Experts) /\ todo[p] # <<>>
    BY <1>2 DEF IInv, TypesOK
  <2>2. Head(todo[p]) \in Experts /\ Tail(todo[p]) \in Seq(Experts)
    BY <2>1, HeadTailProperties
  <2>3. Append(used[p], Head(todo[p])) \in Seq(Experts) /\ <<>> \in Seq(Experts)
    BY <1>2, <2>2, AppendProperties, EmptySeq DEF StepInv
  <2>4. /\ todo' \in [Threads -> Seq(Experts)] /\ used' \in [Threads -> Seq(Experts)]
        /\ last' \in [Threads -> Seq(Experts)]
        /\ \A q \in Threads \ {p} : todo'[q] = todo[q]
    BY <1>2, <2>2, <2>3 DEF Loaded, Failed, StepInv
  <2>5. at'[p] \in {"learn", "look", "idle"} /\ \A q \in Loaders \ {p} : at'[q] = at[q]
    BY <1>1, <1>2 DEF Loaded, Failed
  <2>6. \A e \in Experts : at'[e] = at[e]
    BY <1>2, <2>5, Kinds DEF Loaders
  <2>7. StepInv'
    BY <2>4, <2>5 DEF StepInv, Loaders
  <2> QED
    BY <2>6, <2>7, StillCovered
<1>3. CASE p \notin Threads
  <2>1. UNCHANGED seqs /\ at' = [at EXCEPT ![p] = "release"]
    BY <1>3 DEF Loaded, Failed
  <2>2. at'[p] = "release" /\ \A q \in Loaders \ {p} : at'[q] = at[q]
    BY <1>1, <2>1
  <2>3. StepInv'
    BY <1>3, <2>1, <2>2 DEF StepInv, seqs, Loaders
  <2>4. \A e \in Experts : (at'[e] = "idle") <=> (at[e] = "idle")
    BY <2>2 DEF Loaders, Loading
  <2> QED
    BY <2>3, <2>4, StillCovered
<1> QED
  BY <1>2, <1>3

\* A loader goes on to another place of a load.
LEMMA MovedKeeps ==
  ASSUME IInv, StepInv, ClaimsCover, inflight' = inflight,
         NEW p \in Loaders, at[p] \in Loading, NEW place \in {"wait", "fetch"},
         at' = [at EXCEPT ![p] = place], UNCHANGED <<seqs, counts, steps, faults>>
  PROVE  StepInv' /\ ClaimsCover'
<1>1. at'[p] = place /\ \A q \in Loaders \ {p} : at'[q] = at[q]
  BY DEF IInv, TypesOK
<1>2. StepInv'
  BY <1>1 DEF StepInv, seqs, Loaders
<1>3. \A e \in Experts : (at'[e] = "idle") <=> (at[e] = "idle")
  BY <1>1 DEF Loaders, Loading
<1> QED
  BY <1>2, <1>3, StillCovered

\* What is read is somebody's weights.
LEMMA ReadsWeights ==
  ASSUME IInv, NEW e \in Experts, NEW r \in Reads(e), r.got # "error"
  PROVE  r.got \in Weights
<1>1. l2[e] \in Files /\ l3[e] \in Files
  BY DEF IInv, TypesOK
<1>2. CASE l2[e] # "none"
  BY <1>1, <1>2 DEF Reads, Parses, Files
<1>3. CASE l2[e] = "none" /\ l3[e] # "none"
  BY <1>1, <1>3 DEF Reads, Parses, Files
<1>4. CASE l2[e] = "none" /\ l3[e] = "none"
  BY <1>4 DEF Reads, Weights
<1> QED
  BY <1>2, <1>3, <1>4

\* Every step of a load, whoever makes it.
LEMMA LoadKeepsTypes ==
  ASSUME IInv, StoreInv, NEW p \in Loaders, Load(p)
  PROVE  StoreInv'
<1>1. at[p] \in Loading /\ Want(p) \in Experts
  BY WantIsExpert DEF IInv, Load, FirstLook, Acquire, Fetch, Loading
<1>2. CASE FirstLook(p)
  <2>1. inflight' = inflight /\ counts' = counts /\ steps' = steps /\ faults' = faults
    BY <1>2 DEF FirstLook
  <2>2. \/ Resident(Want(p)) /\ Touch(Want(p)) /\ Loaded(p)
        \/ at' = [at EXCEPT ![p] = "wait"] /\ UNCHANGED cache /\ UNCHANGED seqs
    BY <1>2 DEF FirstLook
  <2>3. CacheInv'
    BY <1>1, <2>2, TouchKeepsCache, CacheKept DEF StoreInv
  <2>4. StepInv' /\ ClaimsCover'
    BY <1>1, <2>1, <2>2, LoadedKeeps, MovedKeeps DEF StoreInv, StepInv
  <2> QED
    BY <2>3, <2>4 DEF StoreInv
<1>3. CASE Acquire(p)
  <2>1. inflight' = inflight /\ counts' = counts /\ steps' = steps /\ faults' = faults
    BY <1>3 DEF Acquire
  <2>2. \/ Resident(Want(p)) /\ Touch(Want(p)) /\ Loaded(p)
        \/ at' = [at EXCEPT ![p] = "fetch"] /\ UNCHANGED cache /\ UNCHANGED seqs
    BY <1>3 DEF Acquire, FoundAfterAll
  <2>3. CacheInv'
    BY <1>1, <2>2, TouchKeepsCache, CacheKept DEF StoreInv
  <2>4. StepInv' /\ ClaimsCover'
    BY <1>1, <2>1, <2>2, LoadedKeeps, MovedKeeps DEF StoreInv, StepInv
  <2> QED
    BY <2>3, <2>4 DEF StoreInv
<1>4. CASE Fetch(p)
  <2>1. inflight' = inflight /\ counts' = counts /\ steps' = steps
    BY <1>4 DEF Fetch
  <2>2. PICK r \in Reads(Want(p)) :
          /\ faults + r.failed <= MaxFaults /\ faults' = faults + r.failed
          /\ \/ r.got # "error" /\ Insert(Want(p), r.got) /\ Loaded(p)
             \/ r.got = "error" /\ Failed(p) /\ UNCHANGED cache
    BY <1>4 DEF Fetch
  <2>3. r.failed \in {0, 1}
    BY DEF Reads
  <2>4. faults' \in 0..MaxFaults
    BY <2>2, <2>3, TiersAssumption DEF StoreInv, StepInv
  <2>5. CacheInv'
    BY <1>1, <2>2, InsertKeepsCache, ReadsWeights, CacheKept DEF StoreInv
  <2>6. StepInv' /\ ClaimsCover'
    BY <1>1, <2>1, <2>2, <2>4, LoadedKeeps DEF StoreInv
  <2> QED
    BY <2>5, <2>6 DEF StoreInv
<1> QED
  BY <1>2, <1>3, <1>4 DEF Load

\* A step of a decoding thread that does not load.
LEMMA ThreadMoves ==
  ASSUME IInv, StoreInv, NEW t \in Threads, NEW place \in Places, NEW ahead \in Seq(Experts),
         at' = [at EXCEPT ![t] = place], todo' = [todo EXCEPT ![t] = ahead],
         place \in {"warm", "claim"} => ahead # <<>>,
         used' \in [Threads -> Seq(Experts)], last' \in [Threads -> Seq(Experts)],
         counts' \in [Experts -> [Experts -> Nat]], steps' \in 0..MaxSteps,
         faults' = faults, inflight' = inflight, UNCHANGED cache
  PROVE  StoreInv'
<1>1. at'[t] = place /\ \A q \in Loaders \ {t} : at'[q] = at[q]
  BY DEF IInv, TypesOK, Loaders
<1>2. todo' \in [Threads -> Seq(Experts)] /\ todo'[t] = ahead
      /\ \A q \in Threads \ {t} : todo'[q] = todo[q]
  BY DEF StoreInv, StepInv
<1>3. StepInv'
  BY <1>1, <1>2 DEF StoreInv, StepInv, Loaders
<1>4. \A e \in Experts : at'[e] = at[e]
  BY <1>1, Kinds DEF Loaders
<1>5. ClaimsCover'
  BY <1>4, StillCovered DEF StoreInv
<1> QED
  BY <1>3, <1>5, CacheKept DEF StoreInv

\* The router names experts.
LEMMA RouteKeepsTypes ==
  ASSUME IInv, StoreInv, NEW t \in Threads, Route(t)
  PROVE  StoreInv'
<1>1. PICK chosen \in [1..TopK -> Experts] : todo' = [todo EXCEPT ![t] = chosen]
  BY DEF Route
<1>2. chosen \in Seq(Experts)
  BY TiersAssumption, IsASeq
<1>3. used' \in [Threads -> Seq(Experts)]
  BY EmptySeq DEF Route, StoreInv, StepInv
<1>4. steps' \in 0..MaxSteps
  BY TiersAssumption DEF Route, StoreInv, StepInv
<1>5. /\ last' = last /\ counts' = counts /\ faults' = faults /\ inflight' = inflight
      /\ at' = [at EXCEPT ![t] = "look"] /\ UNCHANGED cache
  BY DEF Route
<1>6. last' \in [Threads -> Seq(Experts)] /\ counts' \in [Experts -> [Experts -> Nat]]
  BY <1>5 DEF StoreInv, StepInv
<1> QED
  BY <1>1, <1>2, <1>3, <1>4, <1>5, <1>6, ThreadMoves DEF Places

\* What is predicted is a list of experts.
LEMMA PredictionsTypes ==
  ASSUME NEW learned, NEW current, NEW ahead \in Predictions(learned, current)
  PROVE  ahead \in Seq(Experts)
<1>1. PICK seen \in SUBSET Experts : ahead \in [1..Min({TopK, Cardinality(seen)}) -> seen]
  BY DEF Predictions
<1>2. Cardinality(seen) \in Nat
  <2>1. IsFiniteSet(Experts)
    BY TiersAssumption, FS_Interval DEF Experts
  <2> QED
    BY <2>1, FS_Subset, FS_CardinalityType
<1> DEFINE n == Min({TopK, Cardinality(seen)})
<1>3. n \in Nat
  BY <1>2, TiersAssumption, LeastOf
<1>4. ahead \in [1..n -> Experts]
  BY <1>1
<1> HIDE DEF n
<1> QED
  BY <1>3, <1>4, IsASeq

\* A step is counted, and what it predicts is to be warmed.
LEMMA LearnKeepsTypes ==
  ASSUME IInv, StoreInv, NEW t \in Threads, Learn(t)
  PROVE  StoreInv'
<1>1. PICK ahead \in Predictions(counts', used[t]) :
        /\ todo' = [todo EXCEPT ![t] = ahead]
        /\ at' = [at EXCEPT ![t] = IF ahead = <<>> THEN "idle" ELSE "warm"]
  BY DEF Learn
<1>2. ahead \in Seq(Experts)
  BY <1>1, PredictionsTypes
<1>3. counts' = Observed(last[t], used[t]) /\ last' = [last EXCEPT ![t] = used[t]]
      /\ UNCHANGED <<cache, used, inflight, steps, faults>>
  BY DEF Learn
<1>4. last' \in [Threads -> Seq(Experts)] /\ used' \in [Threads -> Seq(Experts)]
      /\ steps' \in 0..MaxSteps
  BY <1>3 DEF StoreInv, StepInv
<1>5. counts' \in [Experts -> [Experts -> Nat]]
  <2>1. \A p, q \in Experts : counts[p][q] \in Nat
    BY DEF StoreInv, StepInv
  <2>2. \A p, q \in Experts :
          counts[p][q] + (IF p \in Range(last[t]) /\ q \in Range(used[t]) THEN 1 ELSE 0) \in Nat
    BY <2>1
  <2> QED
    BY <1>3, <2>2 DEF Observed
<1> QED
  BY <1>1, <1>2, <1>3, <1>4, <1>5, ThreadMoves DEF Places

\* The next of the predicted experts, or the claim on this one.
LEMMA WarmLookKeepsTypes ==
  ASSUME IInv, StoreInv, NEW t \in Threads, WarmLook(t)
  PROVE  StoreInv'
<1>1. todo[t] \in Seq(Experts) \ {<<>>}
  BY DEF WarmLook, StoreInv, StepInv
<1>2. UNCHANGED <<cache, used, last, counts, inflight, steps, faults>>
  BY DEF WarmLook
<1>3. /\ used' \in [Threads -> Seq(Experts)] /\ last' \in [Threads -> Seq(Experts)]
      /\ counts' \in [Experts -> [Experts -> Nat]] /\ steps' \in 0..MaxSteps
  BY <1>2 DEF StoreInv, StepInv
<1>4. CASE Warmed(t)
  <2> DEFINE place == IF Len(todo[t]) = 1 THEN "idle" ELSE "warm"
  <2>1. at' = [at EXCEPT ![t] = place] /\ todo' = [todo EXCEPT ![t] = Tail(todo[t])]
    BY <1>4 DEF Warmed
  <2>2. Tail(todo[t]) \in Seq(Experts) /\ (Len(todo[t]) # 1 => Tail(todo[t]) # <<>>)
    BY <1>1, HeadTailProperties, TailOfSeveral
  <2> QED
    BY <1>2, <1>3, <2>1, <2>2, ThreadMoves DEF Places
<1>5. CASE at' = [at EXCEPT ![t] = "claim"] /\ todo' = todo
  <2>1. todo' = [todo EXCEPT ![t] = todo[t]]
    BY <1>5 DEF StoreInv, StepInv
  <2> QED
    BY <1>1, <1>2, <1>3, <1>5, <2>1, ThreadMoves DEF Places
<1> QED
  BY <1>4, <1>5 DEF WarmLook

\* A claim that nobody had made queues a load.
LEMMA WarmClaimKeepsTypes ==
  ASSUME IInv, StoreInv, NEW t \in Threads, WarmClaim(t)
  PROVE  StoreInv'
<1> DEFINE e == Head(todo[t])
           next == IF Len(todo[t]) = 1 THEN "idle" ELSE "warm"
<1>1. todo[t] \in Seq(Experts) \ {<<>>}
  BY DEF WarmClaim, StoreInv, StepInv
<1>2. /\ e \in Experts /\ Tail(todo[t]) \in Seq(Experts)
      /\ Len(todo[t]) # 1 => Tail(todo[t]) # <<>>
  BY <1>1, HeadTailProperties, TailOfSeveral
<1>3. /\ inflight' = inflight \cup {e}
      /\ at' = IF e \in inflight THEN [at EXCEPT ![t] = next]
               ELSE [at EXCEPT ![t] = next, ![e] = "queued"]
      /\ todo' = [todo EXCEPT ![t] = Tail(todo[t])]
      /\ UNCHANGED <<cache, used, last, counts, steps, faults>>
  BY DEF WarmClaim
<1> HIDE DEF e
<1>4. t \notin Experts /\ e \notin Threads /\ t \in Loaders /\ e \in Loaders
  BY <1>2, Kinds DEF Loaders
<1>5. /\ at'[t] = next
      /\ at'[e] = IF e \in inflight THEN at[e] ELSE "queued"
      /\ \A q \in Loaders \ {t, e} : at'[q] = at[q]
  BY <1>2, <1>3, <1>4 DEF IInv, TypesOK
<1>6. /\ todo' \in [Threads -> Seq(Experts)] /\ todo'[t] = Tail(todo[t])
      /\ \A q \in Threads \ {t} : todo'[q] = todo[q]
  BY <1>2, <1>3 DEF StoreInv, StepInv
<1>7. StepInv'
  <2>1. next \in {"warm", "claim"} => Tail(todo[t]) # <<>>
    BY <1>2
  <2> HIDE DEF next
  <2>2. \A q \in Threads \ {t} : at'[q] = at[q]
    BY <1>4, <1>5 DEF Loaders
  <2>3. \A q \in Threads : at'[q] \in {"warm", "claim"} => todo'[q] # <<>>
    BY <1>5, <1>6, <2>1, <2>2 DEF StoreInv, StepInv
  <2>4. used' = used /\ last' = last /\ counts' = counts /\ steps' = steps /\ faults' = faults
    BY <1>3
  <2> QED
    BY <1>6, <2>3, <2>4 DEF StoreInv, StepInv
<1>8. ClaimsCover'
  <2>1. \A q \in Experts \ {e} : at'[q] = at[q]
    BY <1>4, <1>5 DEF Loaders
  <2>2. at'[e] # "idle"
    BY <1>2, <1>5 DEF StoreInv, ClaimsCover
  <2>3. inflight = {q \in Experts : at[q] # "idle"}
    BY DEF StoreInv, ClaimsCover
  <2>4. inflight' = {q \in Experts : at'[q] # "idle"}
    BY <1>2, <1>3, <2>1, <2>2, <2>3
  <2> QED
    BY <2>4 DEF ClaimsCover
<1> QED
  BY <1>3, <1>7, <1>8, CacheKept DEF StoreInv

\* A background load begins, or releases its claim.
LEMMA TaskKeepsTypes ==
  ASSUME IInv, StoreInv, NEW e \in Experts, Begin(e) \/ Release(e)
  PROVE  StoreInv'
<1>1. UNCHANGED <<cache, seqs, counts, steps, faults>>
  BY DEF Begin, Release
<1>2. \A t \in Threads : at'[t] = at[t]
  BY Kinds DEF Begin, Release, IInv, TypesOK, Loaders
<1>3. StepInv'
  BY <1>1, <1>2 DEF StoreInv, StepInv, seqs
<1>4. CASE Begin(e)
  <2>1. at[e] # "idle" /\ at'[e] # "idle" /\ \A q \in Experts \ {e} : at'[q] = at[q]
    BY <1>4 DEF Begin, IInv, TypesOK, Loaders
  <2>2. ClaimsCover'
    BY <1>4, <2>1, StillCovered DEF StoreInv, Begin
  <2> QED
    BY <1>1, <1>3, <2>2, CacheKept DEF StoreInv
<1>5. CASE Release(e)
  <2>1. at'[e] = "idle" /\ \A q \in Experts \ {e} : at'[q] = at[q]
    BY <1>5 DEF Release, IInv, TypesOK, Loaders
  <2>2. inflight' = inflight \ {e}
    BY <1>5 DEF Release, Released
  <2>3. ClaimsCover'
    BY <2>1, <2>2 DEF StoreInv, ClaimsCover
  <2> QED
    BY <1>1, <1>3, <2>3, CacheKept DEF StoreInv
<1> QED
  BY <1>4, <1>5

\* Every step keeps it.
LEMMA StepKeepsTypes == IInv /\ StoreInv /\ [Next]_vars => StoreInv'
<1> SUFFICES ASSUME IInv, StoreInv, [Next]_vars PROVE StoreInv'
  OBVIOUS
<1>1. ASSUME NEW t \in Threads, Route(t) \/ ThreadStep(t) PROVE StoreInv'
  BY <1>1, LoadKeepsTypes, RouteKeepsTypes, LearnKeepsTypes, WarmLookKeepsTypes,
     WarmClaimKeepsTypes DEF ThreadStep, Loaders
<1>2. ASSUME NEW e \in Experts, TaskStep(e) PROVE StoreInv'
  BY <1>2, LoadKeepsTypes, TaskKeepsTypes DEF TaskStep, Loaders
<1>3. CASE UNCHANGED vars
  <2>1. StepInv' /\ CacheInv' /\ ClaimsCover'
    BY <1>3 DEF vars, seqs, cache, StoreInv, StepInv, CacheInv, ClaimsCover
  <2> QED
    BY <2>1 DEF StoreInv
<1> QED
  BY <1>1, <1>2, <1>3 DEF Next

\* The second inductive invariant, on top of the first: the recency list, the
\* resident experts and the bytes move together (cache:88), and an expert is
\* claimed as long as its background load is somewhere (prefetch:116).
THEOREM TypesInductive == Spec => [](IInv /\ StoreInv)
<1>1. Init => StoreInv
  BY NothingResident
<1> QED
  BY <1>1, InitHolds, StepKeeps, StepKeepsTypes, PTL DEF Spec

\* Through hits, evictions and insertions of any loader, failing or not, the
\* recency list names each resident expert once, the byte count is what they
\* take, and only an expert that is alone exceeds the budget (cache:88).
THEOREM CacheAlwaysExact == Spec => []CacheExact
  BY TypesInductive, StoreIsExact, PTL

\* A claim exists exactly while its background load does, however that load
\* ends and whoever asks for the expert meanwhile (prefetch:116).
THEOREM ClaimsAlwaysCover == Spec => []ClaimsCover
<1>1. StoreInv => ClaimsCover
  BY DEF StoreInv
<1> QED
  BY <1>1, TypesInductive, PTL

=============================================================================
