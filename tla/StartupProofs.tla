---------------------------- MODULE StartupProofs ----------------------------
(* Proofs about Startup: whatever a start was killed in the middle of, and  *)
(* whatever was replaced while it ran, a sidecar that a later start accepts *)
(* holds what that start would compute.                                     *)
(*                                                                          *)
(* The argument.  A fingerprint names the version that was on disk when the *)
(* start began, the weights are made of the version mapped later.  Versions *)
(* only grow: if the two differ, the first is gone for good and no later    *)
(* start fingerprints it.  So a file is wrong only under a fingerprint that *)
(* nobody will ever compute again (SidecarOk, with n < model).              *)
EXTENDS Startup, TLAPS

\* The two hypotheses of the results.  The fingerprint reads a knob that is
\* set and empty as its default, the quantiser reads it as off; and a
\* recording replaced while it is encoded is hashed too late.
NoEmptyKnob == \A env \in Envs : env.mse # "empty"
NoSwap == ~Fault("swap")

-----------------------------------------------------------------------------
(* The inductive invariant.                                                 *)

Fields == {"at", "env", "k", "fp", "st", "first", "reading", "entries", "producer",
           "todo", "hash"}
Opening == {"open", "map"}
Loading == {"tensor", "finish", "write"}
Voicing == {"voice", "hash", "store", "serving"}

Shape ==
  /\ model \in Version /\ codec \in Version /\ wav \in [Voice -> Version]
  /\ gpu = [t \in T |-> gpu[t]] /\ codes = [v \in Voice |-> codes[v]]
  /\ vfile = [v \in Voice |-> vfile[v]] /\ vtmp = [v \in Voice |-> vtmp[v]]
  /\ proc.at \in Stages
  /\ ~At("down") =>
       /\ proc = [x \in Fields |-> proc[x]]
       /\ proc.env \in Envs /\ proc.todo \subseteq Voice
       /\ proc.reading \in BOOLEAN /\ DOMAIN proc.entries \subseteq T
       /\ proc.k \in 1 .. Len(Tensors) + 1
       /\ At("tensor") => proc.k # Len(Tensors) + 1
       /\ proc.at \in Opening => proc.k = 1
       /\ proc.first \in Version /\ proc.first <= model

\* The process fingerprinted its own environment and the version it found.
FpIsOwn ==
  ~At("down") =>
    /\ proc.fp # <<>> => /\ proc.env.mode = "int8"
                         /\ proc.fp = Fingerprint(proc.env, proc.first)
    /\ proc.reading => proc.fp # <<>>
    /\ At("open") => proc.fp # <<>> /\ ~proc.reading /\ proc.entries = Nothing
    /\ At("map") => proc.reading \/ proc.entries = Nothing
    /\ At("write") => proc.fp # <<>> /\ ~proc.reading

\* The version that was mapped is the fingerprinted one or a later one.
Mapped ==
  proc.at \notin {"down"} \cup Opening =>
    proc.st \in Version /\ proc.first <= proc.st /\ proc.st <= model

MadeOf(tensors, env, n) == \A t \in DOMAIN tensors : tensors[t] = Quantised(env, t, n)
NoneMissing(tensors) == \A t \in DOMAIN tensors : tensors[t] # Nothing

\* What is taken from a sidecar, or kept for one, is of the mapped version,
\* unless the model was replaced behind the fingerprint.
EntriesOk ==
  /\ ~At("down") => NoneMissing(proc.entries)
  /\ At("map") /\ proc.first = model => MadeOf(proc.entries, proc.env, model)
  /\ proc.at \in Loading =>
       \/ proc.reading /\ proc.first # proc.st
       \/ MadeOf(proc.entries, proc.env, proc.st)

\* The tensors loaded so far.
LoadedOk ==
  /\ proc.at \notin {"down"} \cup Opening =>
       \A j \in 1 .. proc.k - 1 :
         /\ gpu[Tensors[j]] # Nothing
         /\ proc.first = proc.st => gpu[Tensors[j]] = Quantised(proc.env, Tensors[j], proc.st)
  /\ proc.at \notin {"down", "tensor"} \cup Opening => proc.k = Len(Tensors) + 1

\* A sidecar is what its fingerprint says, or its fingerprint is of a model
\* that is gone.
SidecarOk(file) ==
  file.whole =>
    /\ DOMAIN file.tensors \subseteq T /\ NoneMissing(file.tensors)
    /\ \E env \in Envs, n \in Version :
         /\ env.mode = "int8" /\ file.fp = Fingerprint(env, n) /\ n <= model
         /\ n = model => MadeOf(file.tensors, env, n)

FilesOk ==
  /\ SidecarOk(qfile) /\ SidecarOk(qtmp)
  /\ qfile # NoFile => qfile.whole

\* The encoded reference of a voice names the recording and the codec.
ReferenceOk(file) == file.whole => file.codes = <<file.wav, file.producer>>
ReferencesOk == \A v \in Voice : ReferenceOk(vfile[v]) /\ ReferenceOk(vtmp[v])

\* At most one voice is encoded and not stored.
CodesOk ==
  /\ proc.at \notin Voicing => \A v \in Voice : codes[v] = Nothing
  /\ At("voice") => \A v \in proc.todo : codes[v] = Nothing
  /\ proc.at \in {"hash", "store"} =>
       \E u \in proc.todo :
         /\ codes[u] = <<IF At("hash") THEN wav[u] ELSE proc.hash, proc.producer>>
         /\ \A v \in proc.todo : codes[v] # Nothing => v = u
  /\ proc.at \in Voicing => \A v \in Voice : codes[v] # Nothing => codes[v][2] = proc.producer

IInv ==
  Shape /\ FpIsOwn /\ Mapped /\ EntriesOk /\ LoadedOk /\ FilesOk /\ ReferencesOk /\ CodesOk

-----------------------------------------------------------------------------
(* The operators.                                                           *)

(* A fingerprint tells apart everything that a quantised tensor depends on. *)
LEMMA FingerprintTells ==
  ASSUME NoEmptyKnob, NEW d \in Envs, NEW e \in Envs, d.mode = "int8", e.mode = "int8",
         NEW m, NEW n, Fingerprint(d, m) = Fingerprint(e, n)
  PROVE  /\ m = n
         /\ \A t \in T : Quantised(d, t, n) = Quantised(e, t, n)
<1>1. /\ m = n
      /\ Flag(d.int4, FALSE) = Flag(e.int4, FALSE)
      /\ Flag(d.mse, TRUE) = Flag(e.mse, TRUE)
      /\ Flag(d.all, FALSE) = Flag(e.all, FALSE)
  BY DEF Fingerprint
<1>2. ASSUME NEW v PROVE Flag(v, FALSE) <=> v = "1"
  BY DEF Flag
<1>3. ASSUME NEW v, v # "empty" PROVE Flag(v, TRUE) <=> v \in {"unset", "1"}
  BY <1>3 DEF Flag
<1>4. \A t \in T : Int4Wanted(d, t) <=> Int4Wanted(e, t)
  BY <1>1, <1>2 DEF Int4Wanted
<1>5. Int4Mse(d) = Int4Mse(e)
  <2>1. Flag(d.mse, TRUE) <=> d.mse \in {"unset", "1"}
    BY <1>3 DEF NoEmptyKnob
  <2>2. Flag(e.mse, TRUE) <=> e.mse \in {"unset", "1"}
    BY <1>3 DEF NoEmptyKnob
  <2>3. d.mse \in {"unset", "1"} <=> e.mse \in {"unset", "1"}
    BY <1>1, <2>1, <2>2
  <2> QED BY <2>3 DEF Int4Mse
<1> QED BY <1>1, <1>4, <1>5 DEF Quantised

(* A quantised tensor is something. *)
LEMMA QuantisedSome ==
  ASSUME NEW env, NEW t, NEW n
  PROVE  Quantised(env, t, n) # Nothing
BY DEF Quantised, Nothing

(* The sequence of tensors. *)
LEMMA TensorPlaces ==
  /\ Len(Tensors) \in Nat /\ Len(Tensors) >= 1
  /\ \A k \in 1 .. Len(Tensors) : Tensors[k] \in T
  /\ \A t \in T : \E k \in 1 .. Len(Tensors) : t = Tensors[k]
BY StartupConstants DEF T

LEMMA FingerprintSome ==
  ASSUME NEW env, NEW n
  PROVE  Fingerprint(env, n) # <<>>
BY DEF Fingerprint

LEMMA NothingThere == DOMAIN Nothing = {}
BY DEF Nothing

(* Where the process is after a tensor. *)
LEMMA AdvanceIs ==
  ASSUME Shape, At("tensor"), NEW a, a = Advance
  PROVE  /\ a.at = (IF proc.k = Len(Tensors) THEN "finish" ELSE "tensor")
         /\ a.k = proc.k + 1
         /\ a.env = proc.env /\ a.fp = proc.fp /\ a.st = proc.st /\ a.first = proc.first
         /\ a.reading = proc.reading /\ a.entries = proc.entries /\ a.todo = proc.todo
         /\ a.producer = proc.producer /\ a.hash = proc.hash
         /\ a = [x \in Fields |-> a[x]]
         /\ proc.k \in 1 .. Len(Tensors) /\ a.k \in 1 .. Len(Tensors) + 1
         /\ Current = Tensors[proc.k] /\ Current \in T
<1>1. proc.k \in 1 .. Len(Tensors) /\ proc.k + 1 \in 1 .. Len(Tensors) + 1
  BY TensorPlaces DEF Shape, At
<1>2. Current = Tensors[proc.k] /\ Current \in T
  BY <1>1, TensorPlaces DEF Current
<1> QED BY <1>1, <1>2 DEF Shape, At, Advance, Fields

LEMMA Versions == Version \subseteq Nat /\ MaxVersion \in Nat /\ 0 \in Version
BY StartupConstants DEF Version

-----------------------------------------------------------------------------
(* The steps.                                                               *)

(* A start begins with nothing but its fingerprint. *)
LEMMA BeginInv ==
  ASSUME NEW env \in Envs, IInv, Begin(env)
  PROVE  IInv'
<1> USE DEF IInv, disk, files, At, Goto, Begin
<1>1. Shape'
  <2>1. proc' = [x \in Fields |-> proc'[x]]
    BY DEF Fields
  <2> QED BY <2>1, Versions, TensorPlaces, NothingThere DEF Shape, Version, Stages, Opening
<1>2. FpIsOwn'
  BY FingerprintSome DEF FpIsOwn
<1>3. Mapped'
  BY Versions DEF Shape, Fields, Mapped, Opening
<1>4. EntriesOk'
  BY NothingThere DEF EntriesOk, MadeOf, NoneMissing, Loading
<1>5. LoadedOk'
  BY Versions DEF Shape, Fields, LoadedOk, Opening
<1>6. FilesOk'
  BY Versions DEF Shape, FilesOk, SidecarOk
<1>7. ReferencesOk'
  BY Versions DEF Shape, ReferencesOk, ReferenceOk
<1>8. CodesOk'
  BY Versions DEF Shape, Fields, CodesOk, Voicing
<1> QED BY <1>1, <1>2, <1>3, <1>4, <1>5, <1>6, <1>7, <1>8

(* A sidecar is accepted by its fingerprint: FingerprintTells. *)
LEMMA OpenCacheInv ==
  ASSUME NoEmptyKnob, IInv, OpenCache
  PROVE  IInv'
<1> USE DEF IInv, disk, files, At, Goto, OpenCache
<1>1. Shape'
  <2>1. CASE qfile.whole /\ proc' = [proc EXCEPT !.at = "map", !.reading = TRUE,
                                                    !.entries = qfile.tensors]
    BY <2>1 DEF Shape, Fields, Stages, Opening, FilesOk, SidecarOk
  <2>2. CASE proc' = [proc EXCEPT !.at = "map"]
    BY <2>2 DEF Shape, Fields, Stages, Opening
  <2> QED BY <2>1, <2>2
<1>2. FpIsOwn'
  <2>1. proc.fp # <<>> /\ proc.entries = Nothing
    BY DEF FpIsOwn
  <2>2. CASE proc' = [proc EXCEPT !.at = "map", !.reading = TRUE, !.entries = qfile.tensors]
    BY <2>1, <2>2 DEF Shape, Fields, FpIsOwn
  <2>3. CASE proc' = [proc EXCEPT !.at = "map"]
    BY <2>1, <2>3 DEF Shape, Fields, FpIsOwn
  <2> QED BY <2>2, <2>3
<1>3. Mapped'
  BY Versions DEF Shape, Fields, Mapped, Opening
<1>4. EntriesOk'
  <2>1. CASE proc' = [proc EXCEPT !.at = "map"]
    BY <2>1, NothingThere DEF Shape, Fields, FpIsOwn, EntriesOk, MadeOf, NoneMissing, Loading
  <2>2. CASE /\ qfile.whole /\ qfile.fp = proc.fp
             /\ proc' = [proc EXCEPT !.at = "map", !.reading = TRUE, !.entries = qfile.tensors]
    <3>1. /\ proc'.at = "map" /\ proc'.entries = qfile.tensors /\ proc'.env = proc.env
          /\ proc'.first = proc.first
      BY <2>2 DEF Shape, Fields
    <3>2. PICK env \in Envs, n \in Version :
             /\ env.mode = "int8" /\ qfile.fp = Fingerprint(env, n) /\ n <= model
             /\ n = model => MadeOf(qfile.tensors, env, n)
      BY <2>2 DEF FilesOk, SidecarOk
    <3>3. /\ proc.env.mode = "int8" /\ proc.env \in Envs
          /\ Fingerprint(env, n) = Fingerprint(proc.env, proc.first)
      BY <2>2, <3>2 DEF FpIsOwn, Shape
    <3>4. n = proc.first /\ \A t \in T : Quantised(env, t, n) = Quantised(proc.env, t, n)
      <4>1. n = proc.first
        BY <3>2, <3>3, FingerprintTells
      <4>2. Fingerprint(env, n) = Fingerprint(proc.env, n)
        BY <3>3, <4>1
      <4> QED BY <3>2, <3>3, <4>1, <4>2, FingerprintTells
    <3>5. DOMAIN qfile.tensors \subseteq T /\ NoneMissing(qfile.tensors)
      BY <2>2 DEF FilesOk, SidecarOk
    <3>6. proc.first = model => MadeOf(qfile.tensors, proc.env, model)
      BY <3>2, <3>4, <3>5 DEF MadeOf
    <3> QED BY <3>1, <3>5, <3>6 DEF EntriesOk, Loading
  <2> QED BY <2>1, <2>2
<1>5. LoadedOk'
  BY Versions DEF Shape, Fields, LoadedOk, Opening
<1>6. FilesOk'
  BY Versions DEF Shape, FilesOk, SidecarOk
<1>7. ReferencesOk'
  BY Versions DEF Shape, ReferencesOk, ReferenceOk
<1>8. CodesOk'
  BY Versions DEF Shape, Fields, CodesOk, Voicing
<1> QED BY <1>1, <1>2, <1>3, <1>4, <1>5, <1>6, <1>7, <1>8

(* The model mapped is the one fingerprinted, or a later one. *)
LEMMA MapModelInv ==
  ASSUME IInv, MapModel
  PROVE  IInv'
<1> USE DEF IInv, disk, files, At, Goto, MapModel
<1>1. Shape'
  <2>1. proc.k = 1 /\ proc.k # Len(Tensors) + 1
    BY TensorPlaces DEF Shape, Opening
  <2> QED BY <2>1 DEF Shape, Fields, Stages, Opening
<1>2. FpIsOwn'
  BY Versions DEF Shape, Fields, FpIsOwn
<1>3. Mapped'
  BY Versions DEF Shape, Fields, Mapped, Opening
<1>4. EntriesOk'
  <2>1. /\ proc'.at = "tensor" /\ proc'.entries = proc.entries /\ proc'.env = proc.env
        /\ proc'.first = proc.first /\ proc'.reading = proc.reading /\ proc'.st = model
    BY DEF Shape, Fields
  <2>2. CASE proc.first = model
    BY <2>1, <2>2 DEF EntriesOk
  <2>3. CASE proc.entries = Nothing
    BY <2>1, <2>3, NothingThere DEF EntriesOk, MadeOf, NoneMissing
  <2>4. CASE proc.reading /\ proc.first # model
    BY <2>1, <2>4 DEF EntriesOk
  <2> QED BY <2>2, <2>3, <2>4 DEF FpIsOwn
<1>5. LoadedOk'
  BY Versions DEF Shape, Fields, LoadedOk, Opening
<1>6. FilesOk'
  BY Versions DEF Shape, FilesOk, SidecarOk
<1>7. ReferencesOk'
  BY Versions DEF Shape, ReferencesOk, ReferenceOk
<1>8. CodesOk'
  BY Versions DEF Shape, Fields, CodesOk, Voicing
<1> QED BY <1>1, <1>2, <1>3, <1>4, <1>5, <1>6, <1>7, <1>8

(* A tensor is taken from the sidecar. *)
LEMMA TakeTensorInv ==
  ASSUME IInv, TakeTensor
  PROVE  IInv'
<1> USE DEF IInv, disk, files, At, TakeTensor
<1>0. /\ proc'.at = (IF proc.k = Len(Tensors) THEN "finish" ELSE "tensor")
      /\ proc'.k = proc.k + 1
      /\ proc'.env = proc.env /\ proc'.fp = proc.fp /\ proc'.st = proc.st
      /\ proc'.first = proc.first /\ proc'.reading = proc.reading
      /\ proc'.entries = proc.entries /\ proc'.todo = proc.todo
      /\ proc'.producer = proc.producer /\ proc'.hash = proc.hash
      /\ proc' = [x \in Fields |-> proc'[x]]
      /\ proc.k \in 1 .. Len(Tensors) /\ proc'.k \in 1 .. Len(Tensors) + 1
      /\ Current = Tensors[proc.k] /\ Current \in T
  BY AdvanceIs
<1>1. Shape'
  <2>1. gpu' = [t \in T |-> gpu'[t]]
    BY DEF Shape
  <2>2. proc'.at \in {"finish", "tensor"} /\ (proc'.at = "tensor" => proc'.k # Len(Tensors) + 1)
    BY <1>0, TensorPlaces
  <2> QED BY <1>0, <2>1, <2>2 DEF Shape, Stages, Opening
<1>2. FpIsOwn'
  BY <1>0 DEF FpIsOwn
<1>3. Mapped'
  BY <1>0 DEF Mapped, Opening
<1>4. EntriesOk'
  BY <1>0 DEF EntriesOk, Loading
<1>5. LoadedOk'
  <2>1. /\ gpu'[Tensors[proc.k]] = proc.entries[Current]
        /\ \A t \in T : t # Current => gpu'[t] = gpu[t]
    BY <1>0 DEF Shape
  <2>2. Current \in DOMAIN proc.entries /\ proc.reading
    BY DEF Hit
  <2>3. /\ proc.entries[Current] # Nothing
        /\ proc.first = proc.st => proc.entries[Current] = Quantised(proc.env, Current, proc.st)
    BY <2>2 DEF EntriesOk, NoneMissing, MadeOf, Loading
  <2>4. \A j \in 1 .. proc'.k - 1 :
          /\ gpu'[Tensors[j]] # Nothing
          /\ proc.first = proc.st => gpu'[Tensors[j]] = Quantised(proc.env, Tensors[j], proc.st)
    <3> SUFFICES ASSUME NEW j \in 1 .. proc'.k - 1
                 PROVE  /\ gpu'[Tensors[j]] # Nothing
                        /\ proc.first = proc.st =>
                             gpu'[Tensors[j]] = Quantised(proc.env, Tensors[j], proc.st)
      OBVIOUS
    <3>1. CASE Tensors[j] = Current
      BY <3>1, <1>0, <2>1, <2>3
    <3>2. CASE Tensors[j] # Current
      <4>1. j \in 1 .. proc.k - 1 /\ Tensors[j] \in T
        BY <1>0, <3>2, TensorPlaces
      <4> QED BY <4>1, <3>2, <2>1 DEF LoadedOk, Opening
    <3> QED BY <3>1, <3>2
  <2> QED BY <1>0, <2>4, TensorPlaces DEF LoadedOk, Opening
<1>6. FilesOk'
  BY Versions DEF Shape, FilesOk, SidecarOk
<1>7. ReferencesOk'
  BY Versions DEF Shape, ReferencesOk, ReferenceOk
<1>8. CodesOk'
  BY <1>0 DEF CodesOk, Voicing
<1> QED BY <1>1, <1>2, <1>3, <1>4, <1>5, <1>6, <1>7, <1>8

(* A tensor is quantised, and kept for the sidecar unless one is served. *)
LEMMA MakeTensorInv ==
  ASSUME IInv, MakeTensor
  PROVE  IInv'
<1> USE DEF IInv, disk, files, At
<1> DEFINE made == Quantised(proc.env, Current, proc.st)
           kept == [x \in DOMAIN proc.entries \cup {Current} |->
                      IF x = Current THEN made ELSE proc.entries[x]]
<1>0. /\ proc.at = "tensor" /\ UNCHANGED <<model, codec, wav, qfile, qtmp, vfile, vtmp, codes>>
      /\ gpu' = [gpu EXCEPT ![Current] = made]
  BY DEF MakeTensor
<1>a. \/ ~proc.reading /\ proc' = [Advance EXCEPT !.entries = kept]
      \/ proc' = Advance
  BY DEF MakeTensor
<1>b. /\ proc'.at = (IF proc.k = Len(Tensors) THEN "finish" ELSE "tensor")
      /\ proc'.k = proc.k + 1
      /\ proc'.env = proc.env /\ proc'.fp = proc.fp /\ proc'.st = proc.st
      /\ proc'.first = proc.first /\ proc'.reading = proc.reading
      /\ (~proc.reading /\ proc'.entries = kept) \/ proc'.entries = proc.entries
      /\ proc'.todo = proc.todo /\ proc'.producer = proc.producer /\ proc'.hash = proc.hash
      /\ proc' = [x \in Fields |-> proc'[x]]
      /\ proc.k \in 1 .. Len(Tensors) /\ proc'.k \in 1 .. Len(Tensors) + 1
      /\ Current = Tensors[proc.k] /\ Current \in T
  <2> HIDE DEF kept
  <2>1. CASE proc' = Advance
    BY <1>0, <2>1, AdvanceIs
  <2>2. CASE ~proc.reading /\ proc' = [Advance EXCEPT !.entries = kept]
    BY <1>0, <2>2, AdvanceIs DEF Fields
  <2> QED BY <1>a, <2>1, <2>2
<1>c. NoneMissing(kept) /\ DOMAIN kept \subseteq T
  BY <1>0, <1>b, QuantisedSome DEF Shape, EntriesOk, NoneMissing
<1>d. ~proc.reading => MadeOf(kept, proc.env, proc.st)
  BY <1>0 DEF EntriesOk, MadeOf, Loading
<1> HIDE DEF kept
<1>1. Shape'
  <2>1. gpu' = [t \in T |-> gpu'[t]]
    BY <1>0 DEF Shape
  <2>2. proc'.at \in {"finish", "tensor"} /\ (proc'.at = "tensor" => proc'.k # Len(Tensors) + 1)
    BY <1>b, TensorPlaces
  <2>3. DOMAIN proc'.entries \subseteq T
    BY <1>0, <1>b, <1>c DEF Shape
  <2> QED BY <1>0, <1>b, <2>1, <2>2, <2>3 DEF Shape, Stages, Opening
<1>2. FpIsOwn'
  BY <1>0, <1>b DEF FpIsOwn
<1>3. Mapped'
  BY <1>0, <1>b DEF Mapped, Opening
<1>4. EntriesOk'
  <2>1. NoneMissing(proc'.entries) /\ proc'.at # "map"
    BY <1>0, <1>b, <1>c DEF EntriesOk
  <2>2. \/ proc.reading /\ proc.first # proc.st
        \/ MadeOf(proc'.entries, proc.env, proc.st)
    BY <1>0, <1>b, <1>d DEF EntriesOk, Loading
  <2> QED BY <1>b, <2>1, <2>2 DEF EntriesOk
<1>5. LoadedOk'
  <2>1. /\ gpu'[Tensors[proc.k]] = made
        /\ \A t \in T : t # Current => gpu'[t] = gpu[t]
    BY <1>0, <1>b DEF Shape
  <2>2. \A j \in 1 .. proc'.k - 1 :
          /\ gpu'[Tensors[j]] # Nothing
          /\ proc.first = proc.st => gpu'[Tensors[j]] = Quantised(proc.env, Tensors[j], proc.st)
    <3> SUFFICES ASSUME NEW j \in 1 .. proc'.k - 1
                 PROVE  /\ gpu'[Tensors[j]] # Nothing
                        /\ proc.first = proc.st =>
                             gpu'[Tensors[j]] = Quantised(proc.env, Tensors[j], proc.st)
      OBVIOUS
    <3>1. CASE Tensors[j] = Current
      BY <3>1, <1>b, <2>1, QuantisedSome
    <3>2. CASE Tensors[j] # Current
      <4>1. j \in 1 .. proc.k - 1 /\ Tensors[j] \in T
        BY <1>b, <3>2, TensorPlaces
      <4> QED BY <1>0, <4>1, <3>2, <2>1 DEF LoadedOk, Opening
    <3> QED BY <3>1, <3>2
  <2> QED BY <1>0, <1>b, <2>2, TensorPlaces DEF LoadedOk, Opening
<1>6. FilesOk'
  BY <1>0 DEF FilesOk, SidecarOk
<1>7. ReferencesOk'
  BY <1>0 DEF ReferencesOk, ReferenceOk
<1>8. CodesOk'
  BY <1>0, <1>b DEF CodesOk, Voicing
<1> QED BY <1>1, <1>2, <1>3, <1>4, <1>5, <1>6, <1>7, <1>8

(* The temporary file is opened, or there is nothing to write. *)
LEMMA FinishCacheInv ==
  ASSUME IInv, FinishCache
  PROVE  IInv'
<1> USE DEF IInv, disk, files, At, Goto, FinishCache
<1>1. Shape'
  BY Versions DEF Shape, Version, Stages, Fields, Opening
<1>2. FpIsOwn'
  BY Versions DEF Shape, Fields, FpIsOwn
<1>3. Mapped'
  BY Versions DEF Shape, Fields, Mapped, Opening
<1>4. EntriesOk'
  BY Versions DEF Shape, Fields, EntriesOk, MadeOf, NoneMissing, Loading
<1>5. LoadedOk'
  BY Versions DEF Shape, Fields, LoadedOk, Opening
<1>6. FilesOk'
  BY Versions DEF Shape, FilesOk, SidecarOk
<1>7. ReferencesOk'
  BY Versions DEF Shape, ReferencesOk, ReferenceOk
<1>8. CodesOk'
  BY Versions DEF Shape, Fields, CodesOk, Voicing
<1> QED BY <1>1, <1>2, <1>3, <1>4, <1>5, <1>6, <1>7, <1>8

(* The sidecar is whole only with all entries. *)
LEMMA WriteCacheInv ==
  ASSUME IInv, WriteCache
  PROVE  IInv'
<1> USE DEF IInv, disk, files, At, Goto, WriteCache
<1>1. Shape'
  BY Versions DEF Shape, Version, Stages, Fields, Opening
<1>2. FpIsOwn'
  BY Versions DEF Shape, Fields, FpIsOwn
<1>3. Mapped'
  BY Versions DEF Shape, Fields, Mapped, Opening
<1>4. EntriesOk'
  BY Versions DEF Shape, Fields, EntriesOk, MadeOf, NoneMissing, Loading
<1>5. LoadedOk'
  BY Versions DEF Shape, Fields, LoadedOk, Opening
<1>6. FilesOk'
  <2>1. CASE qtmp' = [whole |-> TRUE, fp |-> StoredFingerprint, tensors |-> proc.entries]
    <3>1. /\ proc.env \in Envs /\ proc.env.mode = "int8" /\ proc.first \in Version
          /\ qtmp'.fp = Fingerprint(proc.env, proc.first) /\ proc.first <= model
      BY <2>1 DEF Shape, FpIsOwn, StoredFingerprint
    <3>2. DOMAIN qtmp'.tensors \subseteq T /\ NoneMissing(qtmp'.tensors)
      BY <2>1 DEF Shape, EntriesOk
    <3>3. proc.first = model => proc.st = proc.first
      BY Versions DEF Shape, Mapped, Opening
    <3>4. proc.first = model => MadeOf(qtmp'.tensors, proc.env, proc.first)
      BY <2>1, <3>3 DEF FpIsOwn, EntriesOk, Loading
    <3>5. SidecarOk(qtmp)'
      BY <3>1, <3>2, <3>4 DEF SidecarOk, MadeOf, NoneMissing
    <3> QED BY <3>5 DEF FilesOk, SidecarOk
  <2>2. CASE qtmp' = NoFile
    BY <2>2 DEF FilesOk, SidecarOk, NoFile
  <2> QED BY <2>1, <2>2
<1>7. ReferencesOk'
  BY Versions DEF Shape, ReferencesOk, ReferenceOk
<1>8. CodesOk'
  BY Versions DEF Shape, Fields, CodesOk, Voicing
<1> QED BY <1>1, <1>2, <1>3, <1>4, <1>5, <1>6, <1>7, <1>8

(* The sidecar is replaced. *)
LEMMA RenameCacheInv ==
  ASSUME IInv, RenameCache
  PROVE  IInv'
<1> USE DEF IInv, disk, files, At, Goto, RenameCache
<1>1. Shape'
  BY Versions DEF Shape, Version, Stages, Fields, Opening
<1>2. FpIsOwn'
  BY Versions DEF Shape, Fields, FpIsOwn
<1>3. Mapped'
  BY Versions DEF Shape, Fields, Mapped, Opening
<1>4. EntriesOk'
  BY Versions DEF Shape, Fields, EntriesOk, MadeOf, NoneMissing, Loading
<1>5. LoadedOk'
  BY Versions DEF Shape, Fields, LoadedOk, Opening
<1>6. FilesOk'
  <2>1. SidecarOk(qtmp)'
    BY DEF SidecarOk, NoFile
  <2>2. SidecarOk(qfile)' /\ (qfile # NoFile => qfile.whole)'
    BY DEF FilesOk, SidecarOk
  <2> QED BY <2>1, <2>2 DEF FilesOk
<1>7. ReferencesOk'
  BY Versions DEF Shape, ReferencesOk, ReferenceOk
<1>8. CodesOk'
  BY Versions DEF Shape, Fields, CodesOk, Voicing
<1> QED BY <1>1, <1>2, <1>3, <1>4, <1>5, <1>6, <1>7, <1>8

(* The sidecar is let go. *)
LEMMA LoadCodecInv ==
  ASSUME IInv, LoadCodec
  PROVE  IInv'
<1> USE DEF IInv, disk, files, At, Goto, LoadCodec
<1>1. Shape'
  <2>1. proc' = [x \in Fields |-> proc'[x]]
    BY DEF Shape, Fields
  <2> QED BY <2>1, NothingThere DEF Shape, Stages, Fields, Opening
<1>2. FpIsOwn'
  BY Versions DEF Shape, Fields, FpIsOwn
<1>3. Mapped'
  BY Versions DEF Shape, Fields, Mapped, Opening
<1>4. EntriesOk'
  <2>1. proc'.at = "voice" /\ proc'.entries = Nothing
    BY DEF Shape, Fields
  <2> QED BY <2>1, NothingThere DEF EntriesOk, NoneMissing, Loading
<1>5. LoadedOk'
  BY Versions DEF Shape, Fields, LoadedOk, Opening
<1>6. FilesOk'
  BY Versions DEF Shape, FilesOk, SidecarOk
<1>7. ReferencesOk'
  BY Versions DEF Shape, ReferencesOk, ReferenceOk
<1>8. CodesOk'
  BY Versions DEF Shape, Fields, CodesOk, Voicing
<1> QED BY <1>1, <1>2, <1>3, <1>4, <1>5, <1>6, <1>7, <1>8

(* A reference is taken from its file. *)
LEMMA TakeVoiceInv ==
  ASSUME NEW v \in Voice, IInv, TakeVoice(v)
  PROVE  IInv'
<1> USE DEF IInv, disk, files, At, Goto, TakeVoice
<1>1. Shape'
  BY Versions DEF Shape, Version, Stages, Fields, Opening
<1>2. FpIsOwn'
  BY Versions DEF Shape, Fields, FpIsOwn
<1>3. Mapped'
  BY Versions DEF Shape, Fields, Mapped, Opening
<1>4. EntriesOk'
  BY Versions DEF Shape, Fields, EntriesOk, MadeOf, NoneMissing, Loading
<1>5. LoadedOk'
  BY Versions DEF Shape, Fields, LoadedOk, Opening
<1>6. FilesOk'
  BY Versions DEF Shape, FilesOk, SidecarOk
<1>7. ReferencesOk'
  BY Versions DEF Shape, ReferencesOk, ReferenceOk
<1>8. CodesOk'
  <2>1. /\ proc'.at = "voice" /\ proc'.todo = proc.todo \ {v}
        /\ proc'.producer = proc.producer
    BY DEF Shape, Fields
  <2>2. codes'[v][2] = proc.producer /\ \A u \in Voice : u # v => codes'[u] = codes[u]
    <3>1. codes'[v] = vfile[v].codes /\ \A u \in Voice : u # v => codes'[u] = codes[u]
      BY DEF Shape
    <3>2. vfile[v].codes = <<vfile[v].wav, proc.producer>>
      BY DEF Matches, ReferencesOk, ReferenceOk
    <3> QED BY <3>1, <3>2
  <2> QED BY <2>1, <2>2 DEF CodesOk, Voicing, Shape
<1> QED BY <1>1, <1>2, <1>3, <1>4, <1>5, <1>6, <1>7, <1>8

(* A reference is encoded. *)
LEMMA EncodeVoiceInv ==
  ASSUME NEW v \in Voice, IInv, EncodeVoice(v)
  PROVE  IInv'
<1> USE DEF IInv, disk, files, At, Goto, EncodeVoice
<1>1. Shape'
  BY Versions DEF Shape, Version, Stages, Fields, Opening
<1>2. FpIsOwn'
  BY Versions DEF Shape, Fields, FpIsOwn
<1>3. Mapped'
  BY Versions DEF Shape, Fields, Mapped, Opening
<1>4. EntriesOk'
  BY Versions DEF Shape, Fields, EntriesOk, MadeOf, NoneMissing, Loading
<1>5. LoadedOk'
  BY Versions DEF Shape, Fields, LoadedOk, Opening
<1>6. FilesOk'
  BY Versions DEF Shape, FilesOk, SidecarOk
<1>7. ReferencesOk'
  BY Versions DEF Shape, ReferencesOk, ReferenceOk
<1>8. CodesOk'
  <2>1. proc'.at = "hash" /\ proc'.todo = proc.todo /\ proc'.producer = proc.producer
    BY DEF Shape, Fields
  <2>2. /\ codes'[v] = <<wav[v], proc.producer>>
        /\ \A u \in Voice : u # v => codes'[u] = codes[u]
    BY DEF Shape
  <2>3. v \in proc.todo /\ proc.todo \subseteq Voice /\ \A u \in proc.todo : codes[u] = Nothing
    BY DEF Shape, CodesOk
  <2>4. \A u \in Voice : codes'[u] # Nothing => codes'[u][2] = proc.producer
    BY <2>2 DEF CodesOk, Voicing
  <2> QED BY <2>1, <2>2, <2>3, <2>4 DEF CodesOk, Voicing
<1> QED BY <1>1, <1>2, <1>3, <1>4, <1>5, <1>6, <1>7, <1>8

(* A voice is skipped. *)
LEMMA SkipVoiceInv ==
  ASSUME NEW v \in Voice, IInv, SkipVoice(v)
  PROVE  IInv'
<1> USE DEF IInv, disk, files, At, Goto, SkipVoice
<1>1. Shape'
  BY Versions DEF Shape, Version, Stages, Fields, Opening
<1>2. FpIsOwn'
  BY Versions DEF Shape, Fields, FpIsOwn
<1>3. Mapped'
  BY Versions DEF Shape, Fields, Mapped, Opening
<1>4. EntriesOk'
  BY Versions DEF Shape, Fields, EntriesOk, MadeOf, NoneMissing, Loading
<1>5. LoadedOk'
  BY Versions DEF Shape, Fields, LoadedOk, Opening
<1>6. FilesOk'
  BY Versions DEF Shape, FilesOk, SidecarOk
<1>7. ReferencesOk'
  BY Versions DEF Shape, ReferencesOk, ReferenceOk
<1>8. CodesOk'
  BY Versions DEF Shape, Fields, CodesOk, Voicing
<1> QED BY <1>1, <1>2, <1>3, <1>4, <1>5, <1>6, <1>7, <1>8

(* The recording is hashed after it was encoded. *)
LEMMA HashVoiceInv ==
  ASSUME NoSwap, NEW v \in Voice, IInv, HashVoice(v)
  PROVE  IInv'
<1> USE DEF IInv, disk, files, At, Goto, HashVoice, StoreDone
<1>1. Shape'
  BY Versions DEF Shape, Version, Stages, Fields, Opening
<1>2. FpIsOwn'
  <2>1. /\ proc'.at \in {"store", "voice"} /\ proc'.env = proc.env /\ proc'.fp = proc.fp
        /\ proc'.first = proc.first /\ proc'.reading = proc.reading
    BY DEF Shape, Fields
  <2> QED BY <2>1 DEF FpIsOwn
<1>3. Mapped'
  BY Versions DEF Shape, Fields, Mapped, Opening
<1>4. EntriesOk'
  BY Versions DEF Shape, Fields, EntriesOk, MadeOf, NoneMissing, Loading
<1>5. LoadedOk'
  BY Versions DEF Shape, Fields, LoadedOk, Opening
<1>6. FilesOk'
  BY Versions DEF Shape, FilesOk, SidecarOk
<1>7. ReferencesOk'
  BY Versions DEF Shape, ReferencesOk, ReferenceOk
<1>8. CodesOk'
  <2>1. /\ codes[v] = <<wav[v], proc.producer>> /\ v \in proc.todo
        /\ \A u \in proc.todo : codes[u] # Nothing => u = v
    BY DEF CodesOk, Encoded
  <2>2. CASE StoreDone(v)
    <3>1. proc'.at = "voice" /\ proc'.todo = proc.todo \ {v} /\ proc'.producer = proc.producer
      BY <2>2 DEF Shape, Fields, StoreDone
    <3> QED BY <2>1, <3>1 DEF CodesOk, Voicing, Shape
  <2>3. CASE proc' = [proc EXCEPT !.at = "store", !.hash = wav[v]]
    <3>1. /\ proc'.at = "store" /\ proc'.todo = proc.todo /\ proc'.producer = proc.producer
          /\ proc'.hash = wav[v]
      BY <2>3 DEF Shape, Fields
    <3> QED BY <2>1, <3>1 DEF CodesOk, Voicing
  <2> QED BY <2>2, <2>3 DEF StoreDone
<1> QED BY <1>1, <1>2, <1>3, <1>4, <1>5, <1>6, <1>7, <1>8

(* A reference is whole only with its names. *)
LEMMA WriteVoiceInv ==
  ASSUME NoSwap, NEW v \in Voice, IInv, WriteVoice(v)
  PROVE  IInv'
<1> USE DEF IInv, disk, files, At, Goto, WriteVoice, StoreDone
<1>1. Shape'
  BY Versions DEF Shape, Version, Stages, Fields, Opening
<1>2. FpIsOwn'
  BY Versions DEF Shape, Fields, FpIsOwn
<1>3. Mapped'
  BY Versions DEF Shape, Fields, Mapped, Opening
<1>4. EntriesOk'
  BY Versions DEF Shape, Fields, EntriesOk, MadeOf, NoneMissing, Loading
<1>5. LoadedOk'
  BY Versions DEF Shape, Fields, LoadedOk, Opening
<1>6. FilesOk'
  BY Versions DEF Shape, FilesOk, SidecarOk
<1>7. ReferencesOk'
  <2>1. codes[v] = <<proc.hash, proc.producer>>
    BY DEF CodesOk, Encoded
  <2>2. CASE vtmp' = [vtmp EXCEPT ![v] = [whole |-> TRUE, wav |-> proc.hash,
                                          producer |-> proc.producer, codes |-> codes[v]]]
    BY <2>1, <2>2 DEF Shape, ReferencesOk, ReferenceOk
  <2>3. CASE vtmp' = [vtmp EXCEPT ![v] = NoFile]
    BY <2>3 DEF Shape, ReferencesOk, ReferenceOk, NoFile
  <2> QED BY <2>2, <2>3
<1>8. CodesOk'
  <2>1. /\ v \in proc.todo
        /\ \A u \in proc.todo : codes[u] # Nothing => u = v
    BY DEF CodesOk, Encoded
  <2>2. CASE StoreDone(v)
    <3>1. proc'.at = "voice" /\ proc'.todo = proc.todo \ {v} /\ proc'.producer = proc.producer
      BY <2>2 DEF Shape, Fields, StoreDone
    <3> QED BY <2>1, <3>1 DEF CodesOk, Voicing, Shape
  <2>3. CASE UNCHANGED proc
    BY <2>3 DEF CodesOk, Voicing
  <2> QED BY <2>2, <2>3 DEF StoreDone
<1> QED BY <1>1, <1>2, <1>3, <1>4, <1>5, <1>6, <1>7, <1>8

(* A reference is replaced. *)
LEMMA RenameVoiceInv ==
  ASSUME NEW v \in Voice, IInv, RenameVoice(v)
  PROVE  IInv'
<1> USE DEF IInv, disk, files, At, Goto, RenameVoice, StoreDone
<1>1. Shape'
  BY Versions DEF Shape, Version, Stages, Fields, Opening
<1>2. FpIsOwn'
  BY Versions DEF Shape, Fields, FpIsOwn
<1>3. Mapped'
  BY Versions DEF Shape, Fields, Mapped, Opening
<1>4. EntriesOk'
  BY Versions DEF Shape, Fields, EntriesOk, MadeOf, NoneMissing, Loading
<1>5. LoadedOk'
  BY Versions DEF Shape, Fields, LoadedOk, Opening
<1>6. FilesOk'
  BY Versions DEF Shape, FilesOk, SidecarOk
<1>7. ReferencesOk'
  <2>1. \A u \in Voice : ReferenceOk(vtmp[u])'
    BY DEF Shape, ReferencesOk, ReferenceOk, NoFile
  <2>2. CASE vfile' = [vfile EXCEPT ![v] = vtmp[v]]
    BY <2>1, <2>2 DEF Shape, ReferencesOk, ReferenceOk
  <2>3. CASE vfile' = vfile
    BY <2>1, <2>3 DEF ReferencesOk, ReferenceOk
  <2> QED BY <2>2, <2>3
<1>8. CodesOk'
  <2>1. /\ v \in proc.todo
        /\ \A u \in proc.todo : codes[u] # Nothing => u = v
    BY DEF CodesOk, Encoded
  <2>2. CASE StoreDone(v)
    <3>1. proc'.at = "voice" /\ proc'.todo = proc.todo \ {v} /\ proc'.producer = proc.producer
      BY <2>2 DEF Shape, Fields, StoreDone
    <3> QED BY <2>1, <3>1 DEF CodesOk, Voicing, Shape
  <2> QED BY <2>2 DEF StoreDone
<1> QED BY <1>1, <1>2, <1>3, <1>4, <1>5, <1>6, <1>7, <1>8

(* The server starts to serve. *)
LEMMA ServeInv ==
  ASSUME IInv, Serve
  PROVE  IInv'
<1> USE DEF IInv, disk, files, At, Goto, Serve
<1>1. Shape'
  BY Versions DEF Shape, Version, Stages, Fields, Opening
<1>2. FpIsOwn'
  BY Versions DEF Shape, Fields, FpIsOwn
<1>3. Mapped'
  BY Versions DEF Shape, Fields, Mapped, Opening
<1>4. EntriesOk'
  BY Versions DEF Shape, Fields, EntriesOk, MadeOf, NoneMissing, Loading
<1>5. LoadedOk'
  BY Versions DEF Shape, Fields, LoadedOk, Opening
<1>6. FilesOk'
  BY Versions DEF Shape, FilesOk, SidecarOk
<1>7. ReferencesOk'
  BY Versions DEF Shape, ReferencesOk, ReferenceOk
<1>8. CodesOk'
  BY Versions DEF Shape, Fields, CodesOk, Voicing
<1> QED BY <1>1, <1>2, <1>3, <1>4, <1>5, <1>6, <1>7, <1>8

(* A killed process leaves whole files only. *)
LEMMA DieInv ==
  ASSUME IInv, Die
  PROVE  IInv'
<1> USE DEF IInv, disk, files, At, Goto, Die, Down
<1>1. Shape'
  BY Versions DEF Shape, Version, Stages, Fields, Opening
<1>2. FpIsOwn'
  BY Versions DEF Shape, Fields, FpIsOwn
<1>3. Mapped'
  BY Versions DEF Shape, Fields, Mapped, Opening
<1>4. EntriesOk'
  BY Versions DEF Shape, Fields, EntriesOk, MadeOf, NoneMissing, Loading
<1>5. LoadedOk'
  BY Versions DEF Shape, Fields, LoadedOk, Opening
<1>6. FilesOk'
  BY DEF FilesOk, SidecarOk, NoFile
<1>7. ReferencesOk'
  BY DEF ReferencesOk, ReferenceOk, NoFile
<1>8. CodesOk'
  BY Versions DEF Shape, Fields, CodesOk, Voicing
<1> QED BY <1>1, <1>2, <1>3, <1>4, <1>5, <1>6, <1>7, <1>8

(* A new version of the model: fingerprints of the old one are dead. *)
LEMMA ReplaceModelInv ==
  ASSUME IInv, ReplaceModel
  PROVE  IInv'
<1> USE DEF IInv, disk, files, At, Goto, ReplaceModel
<1>1. Shape'
  BY Versions DEF Shape, Version, Stages, Fields, Opening
<1>2. FpIsOwn'
  BY Versions DEF Shape, Fields, FpIsOwn
<1>3. Mapped'
  BY Versions DEF Shape, Fields, Mapped, Opening
<1>4. EntriesOk'
  BY Versions DEF Shape, Fields, EntriesOk, MadeOf, NoneMissing, Loading
<1>5. LoadedOk'
  BY Versions DEF Shape, Fields, LoadedOk, Opening
<1>6. FilesOk'
  <2>1. ASSUME NEW file, SidecarOk(file)
        PROVE  file.whole =>
                 /\ DOMAIN file.tensors \subseteq T /\ NoneMissing(file.tensors)
                 /\ \E env \in Envs, n \in Version :
                      /\ env.mode = "int8" /\ file.fp = Fingerprint(env, n)
                      /\ n <= model' /\ n # model'
    <3> SUFFICES ASSUME file.whole
                 PROVE  /\ DOMAIN file.tensors \subseteq T /\ NoneMissing(file.tensors)
                        /\ \E env \in Envs, n \in Version :
                             /\ env.mode = "int8" /\ file.fp = Fingerprint(env, n)
                             /\ n <= model' /\ n # model'
      OBVIOUS
    <3>1. PICK env \in Envs, n \in Version :
             env.mode = "int8" /\ file.fp = Fingerprint(env, n) /\ n <= model
      BY <2>1 DEF SidecarOk
    <3>2. n <= model' /\ n # model'
      <4>1. n \in Nat /\ model \in Nat
        BY Versions DEF Shape
      <4> QED BY <3>1, <4>1
    <3> QED BY <2>1, <3>1, <3>2 DEF SidecarOk
  <2> QED BY <2>1 DEF FilesOk, SidecarOk, MadeOf, NoneMissing
<1>7. ReferencesOk'
  BY Versions DEF Shape, ReferencesOk, ReferenceOk
<1>8. CodesOk'
  BY Versions DEF Shape, Fields, CodesOk, Voicing
<1> QED BY <1>1, <1>2, <1>3, <1>4, <1>5, <1>6, <1>7, <1>8

(* A new codec. *)
LEMMA ReplaceCodecInv ==
  ASSUME IInv, ReplaceCodec
  PROVE  IInv'
<1> USE DEF IInv, disk, files, At, Goto, ReplaceCodec
<1>1. Shape'
  BY Versions DEF Shape, Version, Stages, Fields, Opening
<1>2. FpIsOwn'
  BY Versions DEF Shape, Fields, FpIsOwn
<1>3. Mapped'
  BY Versions DEF Shape, Fields, Mapped, Opening
<1>4. EntriesOk'
  BY Versions DEF Shape, Fields, EntriesOk, MadeOf, NoneMissing, Loading
<1>5. LoadedOk'
  BY Versions DEF Shape, Fields, LoadedOk, Opening
<1>6. FilesOk'
  BY Versions DEF Shape, FilesOk, SidecarOk
<1>7. ReferencesOk'
  BY Versions DEF Shape, ReferencesOk, ReferenceOk
<1>8. CodesOk'
  BY Versions DEF Shape, Fields, CodesOk, Voicing
<1> QED BY <1>1, <1>2, <1>3, <1>4, <1>5, <1>6, <1>7, <1>8

(* A new recording, but not while it is encoded. *)
LEMMA ReplaceWavInv ==
  ASSUME NoSwap, NEW v \in Voice, IInv, ReplaceWav(v)
  PROVE  IInv'
<1> USE DEF IInv, disk, files, At, Goto, ReplaceWav
<1>1. Shape'
  BY Versions DEF Shape, Version, Stages, Fields, Opening
<1>2. FpIsOwn'
  BY Versions DEF Shape, Fields, FpIsOwn
<1>3. Mapped'
  BY Versions DEF Shape, Fields, Mapped, Opening
<1>4. EntriesOk'
  BY Versions DEF Shape, Fields, EntriesOk, MadeOf, NoneMissing, Loading
<1>5. LoadedOk'
  BY Versions DEF Shape, Fields, LoadedOk, Opening
<1>6. FilesOk'
  BY Versions DEF Shape, FilesOk, SidecarOk
<1>7. ReferencesOk'
  BY Versions DEF Shape, ReferencesOk, ReferenceOk
<1>8. CodesOk'
  <2>1. ~(At("hash") /\ Encoded(v))
    BY DEF NoSwap
  <2>2. ASSUME At("hash"), NEW u \in proc.todo, codes[u] # Nothing
        PROVE  wav'[u] = wav[u]
    BY <2>1, <2>2 DEF Encoded, Shape
  <2>3. CASE At("hash")
    <3>1. PICK u \in proc.todo : /\ codes[u] = <<wav[u], proc.producer>>
                                 /\ \A w \in proc.todo : codes[w] # Nothing => w = u
      BY <2>3 DEF CodesOk
    <3>2. codes[u] # Nothing
      BY <3>1 DEF Nothing
    <3> QED BY <2>2, <2>3, <3>1, <3>2 DEF CodesOk, Voicing
  <2>4. CASE ~At("hash")
    BY <2>4 DEF CodesOk, Voicing
  <2> QED BY <2>3, <2>4
<1> QED BY <1>1, <1>2, <1>3, <1>4, <1>5, <1>6, <1>7, <1>8

-----------------------------------------------------------------------------
(* The invariant.                                                           *)

(* A first start finds nothing. *)
LEMMA InitInv == Init => IInv
<1> SUFFICES ASSUME Init PROVE IInv
  OBVIOUS
<1> USE DEF Init, Down, At
<1>1. Shape
  BY Versions DEF Shape, Stages
<1>2. FpIsOwn /\ Mapped /\ LoadedOk
  BY DEF FpIsOwn, Mapped, LoadedOk
<1>3. EntriesOk
  BY DEF EntriesOk, Loading
<1>4. FilesOk
  BY DEF FilesOk, SidecarOk, NoFile
<1>5. ReferencesOk
  BY DEF ReferencesOk, ReferenceOk, NoFile
<1>6. CodesOk
  BY DEF CodesOk, Voicing
<1> QED BY <1>1, <1>2, <1>3, <1>4, <1>5, <1>6 DEF IInv

(* Every step keeps the invariant. *)
LEMMA NextInv ==
  ASSUME NoEmptyKnob, NoSwap, IInv, [Next]_vars
  PROVE  IInv'
<1>1. CASE \E env \in Envs : Begin(env)
  BY <1>1, BeginInv
<1>2. CASE LoadModel
  BY <1>2, OpenCacheInv, MapModelInv, TakeTensorInv, MakeTensorInv, FinishCacheInv,
     WriteCacheInv, RenameCacheInv DEF LoadModel
<1>3. CASE LoadVoices
  BY <1>3, LoadCodecInv, ServeInv, TakeVoiceInv, EncodeVoiceInv, SkipVoiceInv,
     HashVoiceInv, WriteVoiceInv, RenameVoiceInv DEF LoadVoices
<1>4. CASE Die
  BY <1>4, DieInv
<1>5. CASE ReplaceModel \/ ReplaceCodec \/ \E v \in Voice : ReplaceWav(v)
  BY <1>5, ReplaceModelInv, ReplaceCodecInv, ReplaceWavInv
<1>6. CASE UNCHANGED vars
  <2> USE <1>6 DEF vars, disk, files, IInv, At
  <2>1. Shape'
    BY DEF Shape
  <2>2. FpIsOwn' /\ Mapped'
    BY DEF FpIsOwn, Mapped
  <2>3. EntriesOk'
    BY DEF EntriesOk
  <2>4. LoadedOk'
    BY DEF LoadedOk
  <2>5. FilesOk' /\ ReferencesOk'
    BY DEF FilesOk, SidecarOk, ReferencesOk, ReferenceOk
  <2>6. CodesOk'
    BY DEF CodesOk
  <2> QED BY <2>1, <2>2, <2>3, <2>4, <2>5, <2>6
<1> QED BY <1>1, <1>2, <1>3, <1>4, <1>5, <1>6 DEF Next

(* The invariant holds in every state of every sequence of starts, if no    *)
(* knob is set and empty and no recording is replaced under its encoder     *)
(* (src/sched/qcache.c, src/voice/voice_cache.c).                           *)
THEOREM Invariance ==
  ASSUME NoEmptyKnob, NoSwap
  PROVE  Spec => []IInv
<1>1. IInv /\ [Next]_vars => IInv'
  BY NextInv
<1> QED BY InitInv, <1>1, PTL DEF Spec

(* The process, the registry and the files are what the code takes them     *)
(* for, and a server that serves has every tensor on the device.            *)
THEOREM StartTypes ==
  ASSUME NoEmptyKnob, NoSwap
  PROVE  Spec => []TypeOK
<1>1. ASSUME IInv PROVE TypeOK
  <2> USE <1>1 DEF IInv, At
  <2>1. proc.at # "down" /\ proc.reading =>
          proc.fp = Fingerprint(proc.env, proc.fp[Len(proc.fp)])
    <3> SUFFICES ASSUME proc.at # "down", proc.reading
                 PROVE  proc.fp = Fingerprint(proc.env, proc.fp[Len(proc.fp)])
      OBVIOUS
    <3>1. proc.fp = Fingerprint(proc.env, proc.first)
      BY DEF FpIsOwn
    <3>2. proc.fp[Len(proc.fp)] = proc.first
      BY <3>1 DEF Fingerprint
    <3> QED BY <3>1, <3>2
  <2>2. proc.at \in {"hash", "store"} => proc.todo # {}
    BY DEF CodesOk
  <2>3. qfile # NoFile => DOMAIN qfile.tensors \subseteq T
    BY DEF FilesOk, SidecarOk
  <2>4. \A t \in T : proc.at = "serving" => gpu[t] # Nothing
    BY TensorPlaces DEF LoadedOk, Opening
  <2> QED BY <2>1, <2>2, <2>3, <2>4 DEF Shape, TypeOK
<1> QED BY <1>1, Invariance, PTL

(* include/s2pro/qcache.h:10-13, src/voice/voices.c:50-52: a sidecar that a *)
(* start would accept holds what that start would compute, whatever was     *)
(* killed, replaced or failed before.                                       *)
THEOREM HonestSidecars ==
  ASSUME NoEmptyKnob, NoSwap
  PROVE  Spec => []SidecarsAreHonest
<1>1. ASSUME IInv PROVE SidecarsAreHonest
  <2> USE <1>1 DEF IInv
  <2>1. ASSUME qfile.whole, NEW env \in Envs, env.mode = "int8",
               qfile.fp = Fingerprint(env, model), NEW t \in DOMAIN qfile.tensors
        PROVE  qfile.tensors[t] = Quantised(env, t, model)
    <3>1. PICK d \in Envs, n \in Version :
             /\ d.mode = "int8" /\ qfile.fp = Fingerprint(d, n)
             /\ n = model => MadeOf(qfile.tensors, d, n)
      BY <2>1 DEF FilesOk, SidecarOk
    <3>2. Fingerprint(d, n) = Fingerprint(env, model) /\ env.mode = "int8"
      BY <2>1, <3>1
    <3>3. n = model /\ \A u \in T : Quantised(d, u, model) = Quantised(env, u, model)
      <4> DEFINE m == model
      <4>1. Fingerprint(d, n) = Fingerprint(env, m)
        BY <3>2
      <4> HIDE DEF m
      <4>2. n = m
        BY <3>1, <3>2, <4>1, FingerprintTells
      <4>3. Fingerprint(d, m) = Fingerprint(env, m)
        BY <4>1, <4>2
      <4>4. \A u \in T : Quantised(d, u, m) = Quantised(env, u, m)
        BY <3>1, <3>2, <4>3, FingerprintTells
      <4> QED BY <4>2, <4>4 DEF m
    <3>4. t \in T
      BY <2>1 DEF FilesOk, SidecarOk
    <3> QED BY <2>1, <3>1, <3>3, <3>4 DEF MadeOf
  <2>2. ASSUME NEW v \in Voice, vfile[v].whole, vfile[v].wav = wav[v]
        PROVE  vfile[v].codes = <<wav[v], vfile[v].producer>>
    BY <2>2 DEF ReferencesOk, ReferenceOk
  <2> QED BY <2>1, <2>2 DEF SidecarsAreHonest
<1> QED BY <1>1, Invariance, PTL

(* include/s2pro/qcache.h:6-8, docs/SERVING.md:38-40: with or without       *)
(* sidecars a server has the weights of its own environment and the codes   *)
(* of its own codec.                                                        *)
THEOREM SameService ==
  ASSUME NoEmptyKnob, NoSwap
  PROVE  Spec => []ServesTheSame
<1>1. ASSUME IInv PROVE ServesTheSame
  <2> USE <1>1 DEF IInv
  <2>1. WeightsAreOwn
    BY TensorPlaces DEF WeightsAreOwn, LoadedOk, Opening, At
  <2>2. At("serving") => \A v \in Voice : codes[v] # Nothing => codes[v][2] = proc.producer
    BY DEF CodesOk, Voicing, At
  <2> QED BY <2>1, <2>2 DEF ServesTheSame
<1> QED BY <1>1, Invariance, PTL
=============================================================================
