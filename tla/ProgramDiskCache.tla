--------------------------- MODULE ProgramDiskCache ---------------------------
(***************************************************************************)
(* The shader programs kept on disk, one file each.  Worker threads write   *)
(* them, several at a time and to the same file if it comes to that; a      *)
(* write may fail half way, and the process may end at any moment and start *)
(* again as another version.  The render thread loads the startup shaders   *)
(* of a list kept beside them, and others when it needs them.               *)
(***************************************************************************)
EXTENDS Naturals, Sequences

CONSTANTS
  Binaries,  \* programs: records of their digest and the driver's data
  Digests,   \* what they are named by
  MaxSaves,  \* bound on the writes of a run, and
  MaxRuns    \* on the runs of the program

Chunks == UNION {{b.data[n] : n \in DOMAIN b.data} : b \in Binaries}

ProgramsAssumption ==
  /\ MaxSaves \in Nat /\ MaxRuns \in Nat
  /\ Binaries \subseteq [digest : Digests, data : Seq(Chunks) \ {<<>>}]

ASSUME ProgramsAssumption

VARIABLES
  cacheFiles,    \* each digest's file, in a sequence of at most one
  cacheListed,   \* the digests in the file startup_shaders
  cacheDir,      \* the directory exists
  cacheWriters,  \* the workers' tasks
  cacheRun,      \* the run of the program: its number and version, the
                 \* writes it has asked for, and if it loaded at startup
  cached_shader_filenames,
  cacheStartup,  \* startup shaders that are still to be loaded
  cacheLoaded    \* what was loaded in this run

programVars == <<cacheFiles, cacheListed, cacheDir, cacheWriters, cacheRun,
                 cached_shader_filenames, cacheStartup, cacheLoaded>>
diskVars == <<cacheFiles, cacheListed, cacheDir>>
loadVars == <<cached_shader_filenames, cacheStartup, cacheLoaded>>

(* A file begins with the version of its format and a hash of the rest,     *)
(* which stands here for what it is computed from.                          *)
HEADER == 2
FileBytes(b) == << <<"version", cacheRun.version>>, <<"hash", b.data>> >> \o
            [n \in DOMAIN b.data |-> <<"data", b.data[n]>>]
Data(file) == [n \in 1..(Len(file) - HEADER) |-> file[n + HEADER][2]]

Accepted_Unhashed(file) ==
  Len(file) > HEADER /\ file[1] = <<"version", cacheRun.version>>
(* deserialize_program_binary                                               *)
Accepted(file) ==
  /\ Len(file) > HEADER /\ file[1] = <<"version", cacheRun.version>>
  /\ file[2] = <<"hash", Data(file)>>

Run(number, version) ==
  [number |-> number, version |-> version, saves |-> 0, loaded |-> FALSE]

ProgramInit ==
  /\ cacheFiles = [d \in Digests |-> <<>>]
  /\ cacheListed = {} /\ cacheDir = TRUE /\ cacheWriters = {}
  /\ cacheRun = Run(1, 1)
  /\ cached_shader_filenames = {} /\ cacheStartup = {} /\ cacheLoaded = <<>>

(* The next run is of the same version or of another.                       *)
Restart ==
  /\ cacheRun.number < MaxRuns
  /\ \E version \in {1, 2} : cacheRun' = Run(cacheRun.number + 1, version)
  /\ cacheDir' = TRUE /\ cacheWriters' = {}
  /\ cached_shader_filenames' = {} /\ cacheStartup' = {} /\ cacheLoaded' = <<>>
  /\ UNCHANGED <<cacheFiles, cacheListed>>

-----------------------------------------------------------------------------
(* Writing                                                                  *)

(* A task for each program, in the pool.                                    *)
save_shaders_to_disk(b) ==
  /\ cacheRun.saves < MaxSaves
  /\ cacheRun' = [cacheRun EXCEPT !.saves = @ + 1]
  /\ cacheWriters' = cacheWriters \cup
       {[task |-> cacheRun.saves, digest |-> b.digest, bytes |-> FileBytes(b),
         pos |-> 0, open |-> FALSE]}
  /\ UNCHANGED <<diskVars, loadVars>>

(* File::create empties the file, whoever else writes to it.                *)
CreateFile(t) ==
  /\ ~t.open /\ cacheDir
  /\ cacheFiles' = [cacheFiles EXCEPT ![t.digest] = << <<>> >>]
  /\ cacheWriters' = (cacheWriters \ {t}) \cup {[t EXCEPT !.open = TRUE]}
  /\ UNCHANGED <<cacheListed, cacheDir, cacheRun, loadVars>>

(* write_all goes on where this writer is, if need be behind a gap.         *)
WriteNext(t) ==
  LET file == cacheFiles[t.digest][1]
      next == t.pos + 1
      written == [n \in 1..(IF Len(file) > next THEN Len(file) ELSE next) |->
                    IF n = next THEN t.bytes[next]
                    ELSE IF n \in DOMAIN file THEN file[n] ELSE <<"gap", "">>]
  IN /\ t.open
     /\ cacheFiles' = [cacheFiles EXCEPT ![t.digest] = <<written>>]
     /\ cacheWriters' = (cacheWriters \ {t}) \cup
          (IF next = Len(t.bytes) THEN {} ELSE {[t EXCEPT !.pos = next]})
     /\ UNCHANGED <<cacheListed, cacheDir, cacheRun, loadVars>>

(* The file cannot be created or written to: the rest is left.              *)
WriteFails(t) ==
  /\ cacheWriters' = cacheWriters \ {t}
  /\ UNCHANGED <<diskVars, cacheRun, loadVars>>

(* The list of startup shaders is written, perhaps not to its end.  That is *)
(* asked for once frames are rendered, after all loading at startup.        *)
set_startup_shaders ==
  /\ cacheDir /\ cacheRun.loaded /\ cacheStartup = {}
  /\ cacheListed' \in SUBSET Digests
  /\ UNCHANGED <<cacheFiles, cacheDir, cacheWriters, cacheRun, loadVars>>

(* Open files are written on, but no one finds them any more.               *)
remove_disk_cache ==
  /\ cacheDir' = FALSE
  /\ cacheFiles' = [d \in Digests |-> <<>>] /\ cacheListed' = {}
  /\ cacheWriters' = {t \in cacheWriters : ~t.open}
  /\ UNCHANGED <<cacheRun, loadVars>>

-----------------------------------------------------------------------------
(* Loading                                                                  *)

(* What is in the directory now is what may be loaded.                      *)
try_load_startup_shaders_from_disk ==
  /\ ~cacheRun.loaded
  /\ cacheRun' = [cacheRun EXCEPT !.loaded = TRUE]
  /\ cached_shader_filenames' = {d \in Digests : cacheFiles[d] # <<>>}
  /\ cacheStartup' = cacheListed
  /\ UNCHANGED <<diskVars, cacheWriters, cacheLoaded>>

Tried_Again(d) == cached_shader_filenames
Tried(d) == cached_shader_filenames \ {d}

(* A file is tried once, and may have been removed since.                   *)
Loads(d) ==
  LET file == cacheFiles[d][1]
  IN cacheLoaded' = IF /\ d \in cached_shader_filenames
                       /\ cacheFiles[d] # <<>> /\ Accepted(file)
                    THEN Append(cacheLoaded,
                                [digest |-> d, data |-> Data(file),
                                 version |-> file[1][2]])
                    ELSE cacheLoaded

(* One startup shader.  If that took too long, nothing is loaded any more.  *)
LoadStartup(d) ==
  /\ Loads(d)
  /\ \/ cached_shader_filenames' = Tried(d) /\ cacheStartup' = cacheStartup \ {d}
     \/ cached_shader_filenames' = {} /\ cacheStartup' = {}
  /\ UNCHANGED <<diskVars, cacheWriters, cacheRun>>

try_load_shader_from_disk(d) ==
  /\ cacheStartup = {} /\ d \in cached_shader_filenames
  /\ Loads(d) /\ cached_shader_filenames' = Tried(d)
  /\ UNCHANGED <<diskVars, cacheWriters, cacheRun, cacheStartup>>

ProgramNext ==
  \/ Restart
  \/ \E b \in Binaries : save_shaders_to_disk(b)
  \/ \E t \in cacheWriters : CreateFile(t) \/ WriteNext(t) \/ WriteFails(t)
  \/ set_startup_shaders \/ remove_disk_cache
  \/ try_load_startup_shaders_from_disk
  \/ \E d \in cacheStartup : LoadStartup(d)
  \/ \E d \in Digests : try_load_shader_from_disk(d)

ProgramSpec == ProgramInit /\ [][ProgramNext]_programVars

-----------------------------------------------------------------------------
(* What is loaded was saved whole: by one writer, to its end, as the        *)
(* program of that name and by this version, whatever failed, ended or      *)
(* wrote to the same file meanwhile (deserialize_program_binary).           *)
LoadedAreWhole ==
  \A n \in DOMAIN cacheLoaded :
    LET x == cacheLoaded[n]
    IN /\ x.version = cacheRun.version
       /\ [digest |-> x.digest, data |-> x.data] \in Binaries

(* The render thread loads a program once in a run, be it in the list of    *)
(* startup shaders or needed later (swap_remove).                           *)
LoadedOnce ==
  \A m, n \in DOMAIN cacheLoaded :
    cacheLoaded[m].digest = cacheLoaded[n].digest => m = n

ProgramsConsistent == LoadedAreWhole /\ LoadedOnce
=============================================================================
