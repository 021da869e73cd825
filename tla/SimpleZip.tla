------------------------------ MODULE SimpleZip -------------------------------
(***************************************************************************)
(* The command line program (app/main.cpp) as the client of the library:   *)
(* it looks up the method it is asked for, makes and registers one entry   *)
(* per source, fills the buffer, writes it and says whether that succeeded.*)
(***************************************************************************)
EXTENDS Zipper

CONSTANTS
  Sources,     \* the source files, as given on the command line
  MethodNames  \* what may be said with -m; "" is said by leaving it out

ASSUME SourcesAssumption ==
  /\ Sources \in Seq(Names) \ {<<>>}
  /\ Len(Sources) <= MaxEntries

VARIABLES
  pc,                   \* where main is
  next,                 \* how many sources it has begun with
  arg_compress_method,  \* the method, as given on the command line
  compress_method       \* the method that is used

args == <<arg_compress_method, compress_method>>
app_vars == <<vars, pc, next, args>>

AppInit ==
  /\ Init
  /\ pc = "options"
  /\ next = 0
  /\ arg_compress_method \in MethodNames
  /\ compress_method = "deflate"

\* A name that is no method's is caught by UnknownMethod.
ChooseMethod ==
  /\ pc = "options"
  /\ arg_compress_method \in {"", "store", "deflate"}
  /\ compress_method' = IF arg_compress_method = "store" THEN "none" ELSE "deflate"
  /\ pc' = "sources"
  /\ UNCHANGED <<vars, next, arg_compress_method>>

\* A ParseError is thrown, and log::panic exits.
UnknownMethod ==
  /\ pc = "options"
  /\ process = "runs"
  /\ arg_compress_method \notin {"", "store", "deflate"}
  /\ process' = "exited"
  /\ UNCHANGED <<files, entry, zip_vars, out_vars, pc, next, args>>

Open ==
  /\ pc = "sources"
  /\ next < Len(Sources)
  /\ read_bytes(Sources[next + 1], compress_method)
  /\ pc' = "entry"
  /\ next' = next + 1
  /\ UNCHANGED args

\* Inside the constructor of FileEntry.
Construct ==
  /\ pc = "entry"
  /\ \/ get_last_modify_time /\ UNCHANGED pc
     \/ construct /\ pc' = "compress"
  /\ UNCHANGED <<next, args>>

Compress ==
  /\ pc = "compress"
  /\ compress
  /\ pc' = "add"
  /\ UNCHANGED <<next, args>>

Register ==
  /\ pc = "add"
  /\ add_entry
  /\ pc' = "sources"
  /\ UNCHANGED <<next, args>>

\* Mutant of Update: the buffer is filled before the last source is there.
Update_early ==
  /\ pc = "sources"
  /\ next >= Len(Sources) - 1
  /\ update_buffer
  /\ pc' = "update"
  /\ UNCHANGED <<next, args>>

Update ==
  /\ pc = "sources"
  /\ next = Len(Sources)
  /\ update_buffer
  /\ pc' = "update"
  /\ UNCHANGED <<next, args>>

UpdateGoesOn ==
  /\ pc = "update"
  /\ UpdateStep
  /\ pc' = IF update'.pc = "idle" THEN "write" ELSE "update"
  /\ UNCHANGED <<next, args>>

Write ==
  /\ pc = "write"
  /\ write
  /\ pc' = IF written' = "true" THEN "success" ELSE "fail"
  /\ UNCHANGED <<next, args>>

\* log::panic in one of the calls.
Panic ==
  /\ \/ pc = "sources" /\ next < Len(Sources) /\ panic
     \/ pc = "entry" /\ panic
     \/ pc = "write" /\ write_panic
  /\ UNCHANGED <<pc, next, args>>

Main ==
  \/ ChooseMethod \/ UnknownMethod
  \/ Open \/ Construct \/ Compress \/ Register
  \/ Update \/ UpdateGoesOn \/ Write

Others == (\E name \in Names : ChangeFile(name)) /\ UNCHANGED <<pc, next, args>>

AppNext == Main \/ Panic \/ Others

AppSpec == AppInit /\ [][AppNext]_app_vars

\* main keeps running; nothing else has to happen.
FairAppSpec == AppSpec /\ WF_app_vars(Main)

-------------------------------------------------------------------------------
(* Properties.                                                             *)

\* "Success" is said of an archive that holds every source, in the order of
\* the command line, and none of them deflated when "store" was asked for; an
\* archive that can be read if the format's fields are wide enough for it.
SuccessHoldsSources ==
  pc = "success" =>
    /\ WithinFormat(m_entries) => IsArchiveOf(m_buffer, m_entries)
    /\ [k \in DOMAIN m_entries |-> m_entries[k].name] = Sources
    /\ arg_compress_method = "store" =>
         \A k \in DOMAIN m_entries : m_entries[k].m_method = "none"

\* The program comes to an end, and never to "fail": the buffer it writes is
\* always ready, so it says "success", or one of its calls ends the process.
Terminates == <>(pc = "success" \/ process # "runs")

\* main.cpp:79 prints "success" when it is done writing: what was to be
\* written is then in the file.
SuccessMeansWritten == pc = "success" => disk = m_buffer
===============================================================================
