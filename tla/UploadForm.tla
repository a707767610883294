------------------------------- MODULE UploadForm -------------------------------
(***************************************************************************)
(* The sidebar of the Forecast page in one browser: which table a run      *)
(* would take (src/pages/1_Forecast.py).  The page is a script that runs   *)
(* from its top after every interaction; an interaction during a run stops *)
(* the script at its next access to the session state or its next output,  *)
(* so a step of this module is one assignment to the session state.        *)
(*                                                                         *)
(* A file is its bytes, so it stands for its SHA-256 as well.              *)
(***************************************************************************)
CONSTANTS
  File,                   (* the files at hand                               *)
  Oversized, Unreadable,  (* those above MAX_UPLOAD_SIZE_BYTES, and those    *)
                          (* read_csv does not parse                         *)
  NoFile                  (* no file, no table, no digest                    *)

ASSUME FormAssumption ==
  /\ Oversized \cup Unreadable \subseteq File /\ Oversized \cap Unreadable = {}
  /\ NoFile \notin File

VARIABLE
  form    (* the data source chosen and the file offered by the browser; of  *)
          (* the session: last_data_option, cached_df and cached_columns, as *)
          (* the files they were read from, and cached_df_hash; where the    *)
          (* script is; and whether, since table and digest last fitted, a   *)
          (* script was stopped between changing the one and the other       *)

DataOption == {"Use demo data", "Upload CSV"}

FormInit ==
  form = [option |-> "Use demo data", offered |-> NoFile, last |-> NoFile,
          cached |-> NoFile, columns |-> NoFile, hash |-> NoFile,
          at |-> "top", brokenOff |-> FALSE]

Bookkeeping == {"resetting", "parsing", "columns", "unreadable", "dropping"}

(* The browser: another data source, another file or none, any other        *)
(* widget.  The script starts again, wherever it was.  Without an uploader  *)
(* on the page the browser forgets the file.                                *)
Interact ==
  \E option \in DataOption, file \in File \cup {NoFile} :
    /\ option = "Use demo data" => file = NoFile
    /\ form' = [form EXCEPT !.option = option, !.offered = file, !.at = "top",
                  !.brokenOff = @ \/ form.at \in Bookkeeping]

(* Another source than before: what was cached goes.                        *)
CompareSource ==
  /\ form.at = "top"
  /\ form' = IF form.last = form.option THEN [form EXCEPT !.at = "uploader"]
             ELSE [form EXCEPT !.cached = NoFile, !.at = "resetting"]

ResetHash ==
  /\ form.at = "resetting"
  /\ form' = [form EXCEPT !.hash = NoFile, !.brokenOff = FALSE, !.at = "noting"]

NoteSource ==
  /\ form.at = "noting"
  /\ form' = [form EXCEPT !.last = form.option, !.at = "uploader"]

(* The file the uploader gives; the digest of a new one is noted first.     *)
Upload ==
  /\ form.at = "uploader"
  /\ form' = IF form.offered \in Oversized THEN [form EXCEPT !.at = "too large"]
             ELSE IF form.offered \in {NoFile, form.hash} THEN [form EXCEPT !.at = "shown"]
             ELSE [form EXCEPT !.hash = form.offered, !.at = "parsing"]

Parse ==
  /\ form.at = "parsing"
  /\ form' = IF form.offered \in Unreadable THEN [form EXCEPT !.at = "unreadable"]
             ELSE [form EXCEPT !.cached = form.offered, !.at = "columns"]

NoteColumns ==
  /\ form.at = "columns"
  /\ form' = [form EXCEPT !.columns = form.cached, !.brokenOff = FALSE, !.at = "shown"]

(* The report is out, and the cached table goes.                            *)
Drop ==
  /\ form.at \in {"too large", "unreadable"}
  /\ form' = [form EXCEPT !.cached = NoFile, !.at = "dropping"]

(* Slip: only the table is dropped.                                         *)
DropHash_Forgotten ==
  /\ form.at = "dropping"
  /\ form' = [form EXCEPT !.brokenOff = FALSE, !.at = "shown"]

DropHash ==
  /\ form.at = "dropping"
  /\ form' = [form EXCEPT !.hash = NoFile, !.brokenOff = FALSE, !.at = "shown"]

FormNext ==
  \/ Interact \/ CompareSource \/ ResetHash \/ NoteSource
  \/ Upload \/ Parse \/ NoteColumns \/ Drop \/ DropHash

FormSpec == FormInit /\ [][FormNext]_form
--------------------------------------------------------------------------------
(* Safety.                                                                  *)

(* The form shows the file it will use: whatever was chosen, removed and    *)
(* chosen again, a file the page can take is the one the next run forecasts,*)
(* with its own columns to choose from, and an unreadable one leaves no     *)
(* table, unless a script was stopped between digest and table and no file  *)
(* was read since.  A file that is too large leaves no table in any case.   *)
FormUsesTheOfferedFile ==
  form.at = "shown" =>
    /\ form.offered \in Oversized \/ form.option = "Use demo data" => form.cached = NoFile
    /\ form.brokenOff \/ form.offered = NoFile
         \/ form.cached = (IF form.offered \in Oversized \cup Unreadable THEN NoFile
                           ELSE form.offered)
    /\ form.brokenOff \/ form.cached = NoFile \/ form.columns = form.cached
================================================================================
