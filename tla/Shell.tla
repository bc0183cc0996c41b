------------------------------- MODULE Shell -------------------------------
(***************************************************************************)
(* The session: CommandRegistry::execute, record and replay                *)
(* (src/shell/command_registry.cpp) with UserManager                       *)
(* (src/core/user_manager.cpp), the commands of src/main.cpp that work on  *)
(* accounts and directories, and the start of the program, which reads the *)
(* accounts and the operation log back from their files on the host.       *)
(*                                                                         *)
(* What commands work on is one record, and a command a function of it,    *)
(* since replay carries out many in one call.  Of the volume there is the  *)
(* tree of directories with their owners; modes are DEFAULT_MODE, with     *)
(* which every user may make and remove directories anywhere.  A password  *)
(* is typed as it is kept (it is shorter than PWDSIZ).                     *)
(***************************************************************************)
EXTENDS Integers, Sequences, SequencesExt

CONSTANTS
  Word,      \* what is typed, without the spaces: names and passwords
  Name,      \* the names of users, "root" among them
  UidOf,     \* the number that useradd is given for a name, and
  Cut,       \* what it keeps of the name, at most PWDSIZ - 1 characters
  MAX_USER,
  Typed,     \* the commands that are typed
  MaxSteps,  \* bound: the commands and starts
  ShellLiberties
             \* what callers do beyond what the log is ready for: "restart"
             \* starts the program again whoever is logged in and wherever,
             \* "rooted" types patterns like /* outside the root

ASSUME ShellAssumption ==
  /\ {"etc", "home"} \cup Name \subseteq Word
  /\ "root" \in Name
  /\ UidOf \in [Name -> Nat] /\ UidOf["root"] = 0
  /\ Cut \in [Name -> Name] /\ Cut["root"] = "root"
  /\ MAX_USER \in Nat \ {0}
  /\ Typed \subseteq
       ({"mkdir", "rmdir", "rmdir*", "cd"} \X Word) \cup
       ({"useradd"} \X Name \X Word) \cup
       ({"login", "su", "passwd"} \X Word \X Word) \cup
       {<<"logout">>, <<"format">>}

VARIABLES
  now,   \* the record of what commands work on:
         \* tree, cwd, euid (cur_uid_ of the engine), users, cur (0: logged
         \* out), log, suppress_log, and the files users_file and log_file
  steps, \* so far
  made   \* "log": the log accounts for all that there is; "blank": the start
         \* with --format has emptied that since; "other"

shell_vars == <<now, steps, made>>

\* ---- UserManager ----

root == [name |-> "root", pw |-> "root", uid |-> 0]

\* find_user by name and by number: an index, or 0.
find_user(s, n) == SelectInSeq(s.users, LAMBDA u : u.name = n)

find_uid(s, uid) == SelectInSeq(s.users, LAMBDA u : u.uid = uid)

\* Nobody logged in counts as root.
current_uid(s) == IF s.cur = 0 THEN 0 ELSE s.users[s.cur].uid

is_root(s) == s.cur # 0 /\ s.users[s.cur].uid = 0

\* Mistake: any user with this password.
login_pw(s, n, pw) ==
  LET i == SelectInSeq(s.users, LAMBDA u : u.pw = pw)
  IN  IF i = 0 THEN s ELSE [s EXCEPT !.cur = i]

login(s, n, pw) ==
  LET i == SelectInSeq(s.users, LAMBDA u : u.name = n /\ u.pw = pw)
  IN  IF i = 0 THEN s ELSE [s EXCEPT !.cur = i]

logout(s) == [s EXCEPT !.cur = 0]

\* The command su looks for the name (a number in its place is left out),
\* UserManager::su for the number found.
su(s, n, pw) ==
  LET j == find_uid(s, s.users[find_user(s, n)].uid)
  IN  IF find_user(s, n) # 0 /\ (is_root(s) \/ s.users[j].pw = pw)
      THEN [s EXCEPT !.cur = j] ELSE s

\* save_to_file
Saved(s) == [s EXCEPT !.users_file = s.users]

\* Mistake: the file is not written.
change_password_unsaved(s, old, new) ==
  LET i == find_uid(s, current_uid(s))
  IN  IF s.cur # 0 /\ s.users[i].pw = old
      THEN [s EXCEPT !.users[i].pw = new] ELSE s

\* passwd gives the number of the current user, so the old password is asked.
change_password(s, old, new) ==
  LET i == find_uid(s, current_uid(s))
  IN  IF s.cur # 0 /\ s.users[i].pw = old
      THEN Saved([s EXCEPT !.users[i].pw = new]) ELSE s

\* ---- The engine ----

FreshTree == [p \in {<< >>, <<"etc">>, <<"home">>} |-> 0]

fs_mkdir(s, p) ==
  IF p \in DOMAIN s.tree \/ Front(p) \notin DOMAIN s.tree THEN s
  ELSE [s EXCEPT !.tree = [q \in DOMAIN @ \cup {p} |->
                             IF q = p THEN s.euid ELSE @[q]]]

fs_rmdir(s, p) ==
  IF p \notin DOMAIN s.tree \/ \E q \in DOMAIN s.tree : IsStrictPrefix(p, q) THEN s
  ELSE [s EXCEPT !.tree = [q \in DOMAIN @ \ {p} |-> @[q]]]

fs_chdir(s, p) == IF p \in DOMAIN s.tree THEN [s EXCEPT !.cwd = p] ELSE s

fs_format(s) == [s EXCEPT !.tree = FreshTree, !.cwd = << >>]

set_user(s, uid) == [s EXCEPT !.euid = uid]

\* ---- The commands ----

\* add_user keeps the user; then the home directory is made as that user.
useradd(s, n, pw) ==
  IF ~is_root(s) \/ Len(s.users) >= MAX_USER \/ find_user(s, n) # 0 THEN s
  ELSE LET t == Saved([s EXCEPT !.users =
                         Append(@, [name |-> Cut[n], pw |-> pw, uid |-> UidOf[n]])])
           h == fs_mkdir(set_user(fs_mkdir(t, <<"home">>), UidOf[n]), <<"home", n>>)
       IN  set_user(h, current_uid(h))

\* cd without a name goes to the root, cd ~ to the home directory.
cd(s, n) ==
  fs_chdir(s, CASE n = "/" -> << >>
                [] n = "~" -> <<"home">> \o
                     (IF s.cur = 0 THEN << >> ELSE <<s.users[s.cur].name>>)
                [] OTHER -> Append(s.cwd, n))

\* The directory that the part of a pattern before its last slash names.
DirOf(s, d) == CASE d = "" -> s.cwd [] d = "/" -> << >> [] OTHER -> Append(s.cwd, d)

Matches(s, dir) == {p \in DOMAIN s.tree : p # << >> /\ Front(p) = dir}

\* Mistake: patterns are matched in the current directory.
expand_globs_cwd(s, d) == SetToSeq(Matches(s, s.cwd))

\* What a pattern d/* becomes: nothing is left before the slash of /*, so that is
\* a pattern without a directory.
expand_globs(s, d) == SetToSeq(Matches(s, DirOf(s, IF d = "/" THEN "" ELSE d)))

\* rmdir goes on after a directory that is not empty.
rmdir_all(s, ps) ==
  LET run[k \in 0 .. Len(ps)] == IF k = 0 THEN s ELSE fs_rmdir(run[k - 1], ps[k])
  IN  run[Len(ps)]

handler(s, c) ==
  CASE c[1] = "mkdir"   -> fs_mkdir(s, Append(s.cwd, c[2]))
    [] c[1] = "rmdir"   -> fs_rmdir(s, Append(s.cwd, c[2]))
    [] c[1] = "rmdir*"  -> rmdir_all(s, expand_globs(s, c[2]))
    [] c[1] = "cd"      -> cd(s, c[2])
    [] c[1] = "useradd" -> useradd(s, c[2], c[3])
    [] c[1] = "login"   -> login(s, c[2], c[3])
    [] c[1] = "su"      -> su(s, c[2], c[3])
    [] c[1] = "passwd"  -> change_password(s, c[2], c[3])
    [] c[1] = "logout"  -> logout(s)
    [] c[1] = "format"  -> fs_format(s)

\* ---- CommandRegistry ----

\* The log in memory and the one in the file.  log, replay, help, history and
\* exit are not recorded.
record(s, c) ==
  IF s.suppress_log THEN s
  ELSE [s EXCEPT !.log = Append(@, c), !.log_file = Append(@, c)]

\* The engine learns who is logged in before each command.
execute(s, c) == handler(record(set_user(s, current_uid(s)), c), c)

Replayed(s) ==
  LET run[k \in 0 .. Len(s.log)] ==
        IF k = 0 THEN [s EXCEPT !.suppress_log = TRUE] ELSE execute(run[k - 1], s.log[k])
  IN  [run[Len(s.log)] EXCEPT !.suppress_log = s.suppress_log]

\* Mistake: the file is not truncated.
clear_log_memory(s) == [s EXCEPT !.log = << >>]

clear_log(s) == [s EXCEPT !.log = << >>, !.log_file = << >>]

\* ---- main ----

\* The start: the accounts are read back, the session is root's.
Started(s) ==
  LET t == [s EXCEPT !.users = s.users_file, !.log = s.log_file, !.cwd = << >>,
                     !.euid = 0, !.suppress_log = FALSE]
  IN  [t EXCEPT !.cur = find_uid(t, 0)]

\* The start with --format; the log stays.
StartedFormat(s) ==
  Started([s EXCEPT !.users_file = <<root>>, !.tree = FreshTree])

\* The first start, which finds no files.
Fresh == [tree |-> FreshTree, cwd |-> << >>, euid |-> 0, users |-> <<root>>, cur |-> 1,
          log |-> << >>, suppress_log |-> FALSE, users_file |-> <<root>>,
          log_file |-> << >>]

ShellInit == now = Fresh /\ steps = 0 /\ made = "log"

Command(c) ==
  /\ (c = <<"rmdir*", "/">> /\ now.cwd # << >>) => "rooted" \in ShellLiberties
  /\ now' = execute(now, c)
  /\ made' = IF made = "blank" THEN "other" ELSE made

\* replay and log clear are commands, too, which set the user and are not
\* recorded.
Replay ==
  /\ now' = Replayed(set_user(now, current_uid(now)))
  /\ made' = CASE made = "blank" -> "log"
               [] made = "log" /\ now.log = << >> -> "log"
               [] OTHER -> "other"

LogClear ==
  /\ now' = clear_log(set_user(now, current_uid(now)))
  /\ made' = IF [now EXCEPT !.log = << >>, !.log_file = << >>, !.euid = 0] = Fresh
             THEN "log" ELSE "other"

Start ==
  /\ (now.cwd = << >> /\ now.cur = 1) \/ "restart" \in ShellLiberties
  /\ now' = Started(now)
  /\ UNCHANGED made

StartFormat ==
  /\ now' = StartedFormat(now)
  /\ made' = IF made = "log" THEN "blank" ELSE made

ShellNext ==
  /\ steps < MaxSteps /\ steps' = steps + 1
  /\ \/ \E c \in Typed : Command(c)
     \/ Replay \/ LogClear
     \/ Start \/ StartFormat

ShellSpec == ShellInit /\ [][ShellNext]_shell_vars
-----------------------------------------------------------------------------
\* What there is to see of a state: directories, accounts and the session.
Seen(s) == <<s.tree, s.cwd, s.users, s.cur>>

\* docs: after a start with --format, replay builds up again all that was done.
\* The log is in step with the volume, the accounts and the session at any
\* time, also after replays, restarts and failed commands.
LogRebuilds ==
  made = "log" => Seen(Replayed(StartedFormat(now))) = Seen(now)

\* What the next start reads is what there is, and root can always log in.
FilesAgree ==
  /\ now.users_file = now.users /\ now.log_file = now.log
  /\ ~now.suppress_log
  /\ find_uid(now, 0) = 1

\* As long as the numbers of users differ, login and su end in the account
\* that was named, and a password is changed by its owner alone.
AccountsOwn ==
  [][Len(now'.log) > Len(now.log) =>
       /\ now'.cur \notin {0, now.cur} => now'.users[now'.cur].name = Last(now'.log)[2]
       /\ \A i \in DOMAIN now.users : now'.users[i].pw # now.users[i].pw => i = now.cur]_shell_vars

\* rmdir of a pattern removes the empty directories of the directory in front of
\* the pattern, and no others: the last part is matched, the rest is literal.
ExpandsInDir ==
  [][(Len(now'.log) > Len(now.log) /\ Last(now'.log)[1] = "rmdir*") =>
       LET dir == DirOf(now, Last(now'.log)[2])
       IN  DOMAIN now.tree \ DOMAIN now'.tree =
             {p \in Matches(now, dir) :
                ~\E q \in DOMAIN now.tree : IsStrictPrefix(p, q)}]_shell_vars
=============================================================================
