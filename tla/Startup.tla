------------------------------- MODULE Startup -------------------------------
(* The files a server leaves for its next start: the sidecar of quantised   *)
(* weights (src/sched/qcache.c, filled and used by src/slowar/model.c and   *)
(* src/fastar/fastar.cu) and the encoded reference of each voice            *)
(* (src/voice/voice_cache.c, used by src/voice/voices.c).                   *)
(*                                                                          *)
(* A start fingerprints its inputs, takes from a sidecar that matches or    *)
(* computes, and replaces one that does not through a temporary file.  It   *)
(* may be killed between any two steps; the next start may have another     *)
(* environment; the model, the codec and the recordings may be replaced     *)
(* between any two steps as well, each time by a version not seen before.   *)
EXTENDS Integers, Sequences, FiniteSets

CONSTANTS
  Tensors,     \* the linears, in the order they are loaded
  FastAr,      \* those of the fast-AR
  NotCached,   \* audio_decoder.output.weight: stored, never taken
  Voice,
  Envs,        \* the environments a start may have
  MaxVersion,  \* bound on the versions of the model, the codec, a recording
  Faults       \* a subset of FaultKinds

(* io: a file cannot be read or written; oom: an allocation fails; cuda: a  *)
(* call of the device fails; swap: a recording is replaced while it is      *)
(* being encoded.                                                           *)
FaultKinds == {"io", "oom", "cuda", "swap"}

T == {Tensors[k] : k \in DOMAIN Tensors}
Version == 0 .. MaxVersion

ASSUME StartupConstants ==
  /\ Tensors \in Seq(STRING) \ {<<>>} /\ FastAr \subseteq T /\ NotCached \subseteq FastAr
  /\ IsFiniteSet(Voice) /\ MaxVersion \in Nat /\ Faults \subseteq FaultKinds

VARIABLES
  model, codec, wav,  \* the versions on disk; wav[v] of a recording
  qfile, qtmp,        \* s2p_qcache.bin and its .tmp
  vfile, vtmp,        \* vfile[v]: <voice>.codes, and its .tmp
  proc,               \* the process: where it is and what it holds
  gpu,                \* gpu[t]: the weights of t on the device
  codes               \* codes[v]: the reference of v in the registry

disk == <<model, codec, wav>>
files == <<qfile, qtmp, vfile, vtmp>>
vars == <<disk, files, proc, gpu, codes>>

Fault(kind) == kind \in Faults
NoFile == [whole |-> FALSE]
Nothing == <<>>

-----------------------------------------------------------------------------
(* The environment, as the code that quantises reads it, and as the code    *)
(* that fingerprints does.  "empty" stands for one that is set and empty.   *)

Flag(v, default) == IF v \in {"unset", "empty"} THEN default ELSE v = "1"

Int4Wanted(env, t) == env.int4 = "1" /\ (t \in FastAr => env.all = "1")
Int4Mse(env) == env.mse \in {"unset", "1"}

(* What the live path makes of version n of tensor t. *)
Quantised(env, t, n) ==
  IF env.mode # "int8" THEN <<n, "bf16">>
  ELSE IF Int4Wanted(env, t) THEN <<n, "int4", Int4Mse(env)>> ELSE <<n, "int8">>

(* Faulty variant: a knob of the quantiser is forgotten. *)
Fingerprint_NoMse(env, n) ==
  <<env.mode, Flag(env.int4, FALSE), Flag(env.all, FALSE), n>>

(* fingerprint_model: the configuration, and the names, sizes and times of  *)
(* the model's files.                                                       *)
Fingerprint(env, n) ==
  <<env.mode, Flag(env.int4, FALSE), Flag(env.mse, TRUE), Flag(env.all, FALSE), n>>

-----------------------------------------------------------------------------
Down == [at |-> "down"]
At(at) == proc.at = at
Goto(at) == proc' = [proc EXCEPT !.at = at]

Stages == {"down", "open", "map", "tensor", "finish", "write", "dac", "voice",
           "hash", "store", "serving"}

TypeOK ==
  /\ model \in Version /\ codec \in Version /\ wav \in [Voice -> Version]
  /\ proc.at \in Stages
  /\ proc.at # "down" =>
       /\ proc.env \in Envs /\ proc.k \in 1 .. Len(Tensors) + 1 /\ proc.todo \subseteq Voice
       /\ proc.reading \in BOOLEAN /\ DOMAIN proc.entries \subseteq T
       /\ proc.reading => proc.fp = Fingerprint(proc.env, proc.fp[Len(proc.fp)])
  /\ proc.at \in {"hash", "store"} => proc.todo # {}
  /\ qfile # NoFile => DOMAIN qfile.tensors \subseteq T
  /\ \A t \in T : proc.at = "serving" => gpu[t] # Nothing

Init ==
  /\ model = 0 /\ codec = 0 /\ wav = [v \in Voice |-> 0]
  /\ qfile = NoFile /\ qtmp = NoFile
  /\ vfile = [v \in Voice |-> NoFile] /\ vtmp = [v \in Voice |-> NoFile]
  /\ proc = Down
  /\ gpu = [t \in T |-> Nothing] /\ codes = [v \in Voice |-> Nothing]

(* The stages of a start that quantises: "open" the sidecar, "map" the      *)
(* model; any other goes straight to "map".                                 *)
Begin(env) ==
  /\ At("down")
  /\ proc' = [at |-> IF env.mode = "int8" THEN "open" ELSE "map", env |-> env, k |-> 1,
              fp |-> IF env.mode = "int8" THEN Fingerprint(env, model) ELSE <<>>,
              st |-> 0, first |-> model, reading |-> FALSE, entries |-> Nothing,
              producer |-> 0, todo |-> Voice, hash |-> 0]
  /\ gpu' = [t \in T |-> Nothing] /\ codes' = [v \in Voice |-> Nothing]
  /\ UNCHANGED <<disk, files>>

(* The process is killed, or gives up.  A temporary file it leaves is never *)
(* read: the next write opens it with its old content gone.                 *)
Die ==
  /\ ~At("down")
  /\ proc' = Down
  /\ gpu' = [t \in T |-> Nothing] /\ codes' = [v \in Voice |-> Nothing]
  /\ qtmp' = NoFile /\ vtmp' = [v \in Voice |-> NoFile]
  /\ UNCHANGED <<disk, qfile, vfile>>

(* qc_read_header: a whole sidecar with the right fingerprint is served.    *)
OpenCache ==
  /\ At("open")
  /\ \/ /\ qfile.whole /\ qfile.fp = proc.fp
        /\ proc' = [proc EXCEPT !.at = "map", !.reading = TRUE, !.entries = qfile.tensors]
     \/ /\ ~(qfile.whole /\ qfile.fp = proc.fp) \/ Fault("io")
        /\ Goto("map")
  /\ UNCHANGED <<disk, files, gpu, codes>>

(* s2p_st_open_dir maps the files: what is mapped stays, whatever replaces  *)
(* the names in the directory.                                              *)
MapModel ==
  /\ At("map")
  /\ proc' = [proc EXCEPT !.at = "tensor", !.st = model]
  /\ UNCHANGED <<disk, files, gpu, codes>>

Current == Tensors[proc.k]

(* Faulty variant: the last tensor is not reached. *)
Advance_Short ==
  [proc EXCEPT !.k = @ + 1, !.at = IF proc.k + 1 >= Len(Tensors) THEN "finish" ELSE "tensor"]

Advance == [proc EXCEPT !.k = @ + 1, !.at = IF proc.k = Len(Tensors) THEN "finish" ELSE "tensor"]

Hit == proc.reading /\ Current \in DOMAIN proc.entries \ NotCached

(* s2p_qcache_try_load. *)
TakeTensor ==
  /\ At("tensor") /\ Hit
  /\ gpu' = [gpu EXCEPT ![Current] = proc.entries[Current]]
  /\ proc' = Advance
  /\ UNCHANGED <<disk, files, codes>>

(* The live path, and s2p_qcache_put_linear unless the cache is served.  A  *)
(* snapshot that cannot be allocated is left out of the cache.              *)
MakeTensor ==
  /\ At("tensor")
  /\ ~Hit \/ Fault("cuda")
  /\ LET made == Quantised(proc.env, Current, proc.st)
         kept == [x \in DOMAIN proc.entries \cup {Current} |->
                    IF x = Current THEN made ELSE proc.entries[x]]
     IN  /\ gpu' = [gpu EXCEPT ![Current] = made]
         /\ \/ /\ proc.fp # <<>> /\ ~proc.reading
               /\ proc' = [Advance EXCEPT !.entries = kept]
            \/ /\ proc.fp = <<>> \/ proc.reading \/ Fault("oom")
               /\ proc' = Advance
  /\ UNCHANGED <<disk, files, codes>>

(* s2p_qcache_finish: nothing to write, or the temporary file is opened and *)
(* its old content gone.                                                    *)
FinishCache ==
  /\ At("finish")
  /\ \/ /\ proc.fp = <<>> \/ proc.reading \/ DOMAIN proc.entries = {} \/ Fault("io")
        /\ Goto("dac") /\ UNCHANGED qtmp
     \/ /\ proc.fp # <<>> /\ ~proc.reading /\ DOMAIN proc.entries # {}
        /\ qtmp' = [whole |-> FALSE, fp |-> proc.fp, tensors |-> <<>>]
        /\ Goto("write")
  /\ UNCHANGED <<disk, qfile, vfile, vtmp, gpu, codes>>

(* Faulty variant: fingerprinted again when the file is written. *)
StoredFingerprint_Late == Fingerprint(proc.env, model)

StoredFingerprint == proc.fp

(* The entries are written, closed, and renamed; on an error removed.       *)
WriteCache ==
  /\ At("write") /\ ~qtmp.whole
  /\ \/ /\ qtmp' = [whole |-> TRUE, fp |-> StoredFingerprint, tensors |-> proc.entries]
        /\ UNCHANGED proc
     \/ /\ Fault("io")
        /\ qtmp' = NoFile /\ Goto("dac")
  /\ UNCHANGED <<disk, qfile, vfile, vtmp, gpu, codes>>

RenameCache ==
  /\ At("write") /\ qtmp.whole
  /\ qtmp' = NoFile /\ Goto("dac")
  /\ qfile' = qtmp \/ (Fault("io") /\ qfile' = qfile)
  /\ UNCHANGED <<disk, vfile, vtmp, gpu, codes>>

-----------------------------------------------------------------------------
(* The codec and the voices.                                                *)

(* The sidecar is freed; s2p_dac_load, and the fingerprint of the encoder   *)
(* it makes, of which the precision is left out.                            *)
LoadCodec ==
  /\ At("dac")
  /\ proc' = [proc EXCEPT !.at = "voice", !.producer = codec,
                          !.reading = FALSE, !.entries = Nothing, !.fp = <<>>]
  /\ UNCHANGED <<disk, files, gpu, codes>>

(* Faulty variant: the codec that made the codes does not matter. *)
Matches_AnyProducer(file, v) == file.whole /\ file.wav = wav[v]

(* s2p_voice_cache_load accepts the file for the recording as it is now.    *)
Matches(file, v) == file.whole /\ file.wav = wav[v] /\ file.producer = proc.producer

TakeVoice(v) ==
  /\ At("voice") /\ v \in proc.todo /\ Matches(vfile[v], v)
  /\ codes' = [codes EXCEPT ![v] = vfile[v].codes]
  /\ proc' = [proc EXCEPT !.todo = @ \ {v}]
  /\ UNCHANGED <<disk, files, gpu>>

(* The recording is read and encoded.                                       *)
EncodeVoice(v) ==
  /\ At("voice") /\ v \in proc.todo
  /\ ~Matches(vfile[v], v) \/ Fault("io")
  /\ codes' = [codes EXCEPT ![v] = <<wav[v], proc.producer>>]
  /\ proc' = [proc EXCEPT !.at = "hash"]
  /\ UNCHANGED <<disk, files, gpu>>

(* A recording or its encoding fails: the voice is skipped. *)
SkipVoice(v) ==
  /\ At("voice") /\ v \in proc.todo /\ Fault("io")
  /\ ~Matches(vfile[v], v)
  /\ proc' = [proc EXCEPT !.todo = @ \ {v}]
  /\ UNCHANGED <<disk, files, gpu, codes>>

(* The voice between its encoding and the end of its store. *)
Encoded(v) == v \in proc.todo /\ codes[v] # Nothing

StoreDone(v) == proc' = [proc EXCEPT !.at = "voice", !.todo = @ \ {v}]

(* s2p_voice_cache_store hashes the recording, as it is now, and opens the  *)
(* temporary file.                                                          *)
HashVoice(v) ==
  /\ At("hash") /\ Encoded(v)
  /\ \/ /\ proc' = [proc EXCEPT !.at = "store", !.hash = wav[v]]
        /\ vtmp' = [vtmp EXCEPT ![v] = [whole |-> FALSE]]
     \/ Fault("io") /\ StoreDone(v) /\ UNCHANGED vtmp
  /\ UNCHANGED <<disk, qfile, qtmp, vfile, gpu, codes>>

WriteVoice(v) ==
  /\ At("store") /\ Encoded(v) /\ ~vtmp[v].whole
  /\ \/ /\ vtmp' = [vtmp EXCEPT ![v] = [whole |-> TRUE, wav |-> proc.hash,
                                        producer |-> proc.producer, codes |-> codes[v]]]
        /\ UNCHANGED proc
     \/ Fault("io") /\ vtmp' = [vtmp EXCEPT ![v] = NoFile] /\ StoreDone(v)
  /\ UNCHANGED <<disk, qfile, qtmp, vfile, gpu, codes>>

RenameVoice(v) ==
  /\ At("store") /\ Encoded(v) /\ vtmp[v].whole
  /\ vtmp' = [vtmp EXCEPT ![v] = NoFile]
  /\ vfile' = [vfile EXCEPT ![v] = vtmp[v]] \/ (Fault("io") /\ vfile' = vfile)
  /\ StoreDone(v)
  /\ UNCHANGED <<disk, qfile, qtmp, gpu, codes>>

Serve ==
  /\ At("voice") /\ proc.todo = {}
  /\ Goto("serving")
  /\ UNCHANGED <<disk, files, gpu, codes>>

-----------------------------------------------------------------------------
(* Somebody replaces a file.                                                *)

ReplaceModel ==
  /\ model < MaxVersion /\ model' = model + 1
  /\ UNCHANGED <<codec, wav, files, proc, gpu, codes>>

ReplaceCodec ==
  /\ codec < MaxVersion /\ codec' = codec + 1
  /\ UNCHANGED <<model, wav, files, proc, gpu, codes>>

ReplaceWav(v) ==
  /\ wav[v] < MaxVersion
  /\ Fault("swap") \/ ~(At("hash") /\ Encoded(v))
  /\ wav' = [wav EXCEPT ![v] = @ + 1]
  /\ UNCHANGED <<model, codec, files, proc, gpu, codes>>

LoadModel ==
  \/ OpenCache \/ MapModel \/ TakeTensor \/ MakeTensor
  \/ FinishCache \/ WriteCache \/ RenameCache

LoadVoices ==
  \/ LoadCodec \/ Serve
  \/ \E v \in Voice : TakeVoice(v) \/ EncodeVoice(v) \/ SkipVoice(v)
                      \/ HashVoice(v) \/ WriteVoice(v) \/ RenameVoice(v)

Next ==
  \/ \E env \in Envs : Begin(env)
  \/ LoadModel \/ LoadVoices \/ Die
  \/ ReplaceModel \/ ReplaceCodec \/ \E v \in Voice : ReplaceWav(v)

Spec == Init /\ [][Next]_vars

-----------------------------------------------------------------------------
(* Properties.                                                              *)

(* include/s2pro/qcache.h:10-13, src/voice/voices.c:50-52: the sidecars are *)
(* bound to what they were made of.  A sidecar that a start would accept    *)
(* now holds what that start would compute now, for any environment, and    *)
(* whatever was replaced, or killed, while it was made.                     *)
SidecarsAreHonest ==
  /\ qfile.whole => \A env \in Envs :
       env.mode = "int8" /\ qfile.fp = Fingerprint(env, model) =>
         \A t \in DOMAIN qfile.tensors : qfile.tensors[t] = Quantised(env, t, model)
  /\ \A v \in Voice :
       vfile[v].whole /\ vfile[v].wav = wav[v] => vfile[v].codes = <<wav[v], vfile[v].producer>>

(* include/s2pro/qcache.h:10-12: the fingerprint tells every setting of the *)
(* quantisation apart, so that a start takes nothing made under another     *)
(* (but for a knob that is set and empty, which the instances leave out).   *)
WeightsAreOwn ==
  At("serving") /\ proc.first = proc.st =>
    \A t \in T : gpu[t] = Quantised(proc.env, t, proc.st)

(* include/s2pro/qcache.h:6-8, docs/SERVING.md:38-40: with or without the   *)
(* sidecars a server has the same weights on the device, those of its       *)
(* environment and of the model it started with (if that was not replaced   *)
(* before it was mapped), and codes its own codec would have made.          *)
ServesTheSame ==
  /\ WeightsAreOwn
  /\ At("serving") => \A v \in Voice : codes[v] # Nothing => codes[v][2] = proc.producer
=============================================================================
