----------------------------- MODULE FileChecks -----------------------------
(***************************************************************************)
(* The filesystem validators (validators/filesystem.rs).  A node has the   *)
(* fields kind, mode (the set of its permission bits), size, uid, gid,     *)
(* device, inode, lines (how many), unterminated (whether the last has no  *)
(* newline), text (its words), digest and entries.                         *)
(***************************************************************************)
EXTENDS GuestFacts

file_exists(g, v) ==
  LET facts == Stat(g, v.path)
  IN  CASE facts.kind = "regular" -> Pass
        [] facts.kind = "none" -> Fail("wrong_path")
        [] OTHER -> Fail("wrong_file_type")

(* Mutant of file_missing: a link to nothing is followed. *)
file_missing_followed(g, v) == PassIf(Stat(g, v.path).kind # "directory", "file_already_exists")

file_missing(g, v) == PassIf(~Exists(Lstat(g, v.path)), "file_already_exists")

directory_exists(g, v) ==
  LET facts == Stat(g, v.path)
  IN  CASE facts.kind = "directory" -> Pass
        [] facts.kind = "none" -> Fail("wrong_path")
        [] OTHER -> Fail("wrong_file_type")

directory_missing(g, v) ==
  PassIf(Lstat(g, v.path).kind # "directory", "file_already_exists")

symbolic_link_exists(g, v) ==
  LET kind == Lstat(g, v.path).kind
      actual == IF Flag(v, "resolved") THEN Canonical(g, v.path) ELSE ReadLink(g, v.path)
  IN  CASE kind = "none" -> Fail("wrong_path")
        [] kind \notin {"none", "symlink"} -> Fail("wrong_file_type")
        [] kind = "symlink" -> PassIf(Given(v, "target") => actual = v["target"], "wrong_path")

(* The inode is compared without the device it is on. *)
hard_link_exists(g, v) ==
  LET a == Lstat(g, v.path)
      b == Lstat(g, v.linkTo)
  IN  IF ~Exists(a) \/ ~Exists(b) THEN Fail("wrong_path")
      ELSE PassIf(a.inode = b.inode, "wrong_file_type")

file_type(g, v) ==
  LET facts == IF v.fileType = "symlink" THEN Lstat(g, v.path) ELSE Stat(g, v.path)
  IN  IF Exists(facts) THEN PassIf(facts.kind = v.fileType, "wrong_file_type")
      ELSE Fail("wrong_path")

(* The checks of one attribute of a file that must be there. *)
Attribute(g, v, holds, category) ==
  IF Exists(Stat(g, v.path)) THEN PassIf(holds, category) ELSE Fail("wrong_path")

file_size(g, v) ==
  Attribute(g, v, SatisfiedBy(v, Stat(g, v.path).size), "wrong_file_contents")
file_owner(g, v) ==
  Attribute(g, v, UserForUid(g, Stat(g, v.path).uid) = v.owner, "wrong_ownership")
file_group(g, v) ==
  Attribute(g, v, GroupForGid(g, Stat(g, v.path).gid) = v.group, "wrong_ownership")

(* A mask that does not parse is no mask. *)
file_mode(g, v) ==
  LET masked(bits) == IF Given(v, "mask") /\ ParsesAsMode(v["mask"])
                      THEN bits \cap v["mask"].bits ELSE bits
  IN  IF ~ParsesAsMode(v.mode) THEN Error
      ELSE Attribute(g, v, masked(Stat(g, v.path).mode) = masked(v.mode.bits),
                     "wrong_permissions")

(* read_text: the agent is root, a read fails on what is not a file. *)
ReadText(g, v, outcome) ==
  IF Stat(g, v.path).kind \in {"none", "directory"} THEN Fail("wrong_path") ELSE outcome

file_contains(g, v) ==
  LET cased(word) == IF Param(v, "caseSensitive", TRUE) THEN word ELSE Lower(word)
      normalise(word) == cased(IF Flag(v, "trim") THEN Trim(word) ELSE word)
  IN  ReadText(g, v, PassIf(\E word \in Stat(g, v.path).text :
                              normalise(word) = normalise(v.text), "wrong_file_contents"))

file_matches_regex(g, v) ==
  LET cased(word) == IF Param(v, "caseSensitive", TRUE) THEN word ELSE Lower(word)
  IN  ReadText(g, v,
        IF v.pattern = Malformed THEN Error
        ELSE PassIf(\E word \in Stat(g, v.path).text : cased(word) = cased(v.pattern),
                    "wrong_file_contents"))

(* str::lines counts a last line that no newline ends. *)
file_line_count(g, v) ==
  ReadText(g, v, PassIf(SatisfiedBy(v, Stat(g, v.path).lines), "wrong_file_contents"))

(* What a command that outlives its timeout reports here is a wrong path. *)
file_checksum(g, v, fate) ==
  LET file == Stat(g, v.path)
      readable == file.kind \notin {"none", "directory"}
      output == Run(fate, "sha256sum", IF readable THEN Exit(0, {file.digest}, {})
                                       ELSE Exit(1, {}, {"no such file"}))
  IN  IF ~output.spawned THEN Error
      ELSE IF ~Success(output) THEN Fail("wrong_path")
      ELSE PassIf(v.sha256 \in output.out, "wrong_file_contents")

(* list_entries *)
Listed(g, v) ==
  {e \in Stat(g, v.path).entries : Param(v, "includeHidden", TRUE) \/ ~e.hidden}

directory_contains(g, v) ==
  LET actual == {e.name : e \in Listed(g, v)}
  IN  IF ~IsDir(g, v.path) THEN Fail("wrong_path")
      ELSE PassIf(/\ v.entries \subseteq actual
                  /\ Flag(v, "exact") => actual \subseteq v.entries,
                  "task_partially_completed")

directory_empty(g, v) ==
  IF ~IsDir(g, v.path) THEN Fail("wrong_path")
  ELSE PassIf(Listed(g, v) = {}, "task_partially_completed")

(* Both sides are resolved when they can be, and compared as they are when *)
(* they cannot.                                                            *)
current_directory(g, v, user) ==
  LET resolved(path) == IF Param(v, "resolveSymlinks", TRUE) /\ Canonical(g, path) # NoPath
                        THEN Canonical(g, path) ELSE path
  IN  IF LoginShells(g, user) = {} THEN Error
      ELSE LET shell == CHOOSE p \in LoginShells(g, user) : TRUE
           IN  IF shell.cwd = NoPath THEN Error
               ELSE PassIf(resolved(v.path) = resolved(shell.cwd), "wrong_working_directory")

FileKinds ==
  {"file_exists", "file_missing", "directory_exists", "directory_missing",
   "symbolic_link_exists", "hard_link_exists", "file_type", "file_size", "file_owner",
   "file_group", "file_mode", "file_contains", "file_matches_regex", "file_line_count",
   "file_checksum", "directory_contains", "directory_empty", "current_directory"}

(* filesystem::dispatch *)
FileCheck(g, v, fate, user) ==
  CASE v.kind = "file_exists" -> file_exists(g, v)
    [] v.kind = "file_missing" -> file_missing(g, v)
    [] v.kind = "directory_exists" -> directory_exists(g, v)
    [] v.kind = "directory_missing" -> directory_missing(g, v)
    [] v.kind = "symbolic_link_exists" -> symbolic_link_exists(g, v)
    [] v.kind = "hard_link_exists" -> hard_link_exists(g, v)
    [] v.kind = "file_type" -> file_type(g, v)
    [] v.kind = "file_size" -> file_size(g, v)
    [] v.kind = "file_owner" -> file_owner(g, v)
    [] v.kind = "file_group" -> file_group(g, v)
    [] v.kind = "file_mode" -> file_mode(g, v)
    [] v.kind = "file_contains" -> file_contains(g, v)
    [] v.kind = "file_matches_regex" -> file_matches_regex(g, v)
    [] v.kind = "file_line_count" -> file_line_count(g, v)
    [] v.kind = "file_checksum" -> file_checksum(g, v, fate)
    [] v.kind = "directory_contains" -> directory_contains(g, v)
    [] v.kind = "directory_empty" -> directory_empty(g, v)
    [] v.kind = "current_directory" -> current_directory(g, v, user)
=============================================================================
