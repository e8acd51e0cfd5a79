------------------------------ MODULE PathOps ------------------------------
(***************************************************************************)
(* The path functions of filesystem.c.  A path is the text between its     *)
(* slashes: "/srv/ftp" is <<"srv", "ftp">>, "/srv/" is <<"srv", "">>, "/"  *)
(* is <<"">>, "//a" is <<"", "a">>, and the empty string is <<>>.  The     *)
(* text matters: a slash more or less is what the functions differ in.     *)
(***************************************************************************)
EXTENDS Naturals, SequencesExt

\* What stands between two slashes: a name, or nothing.
Component == STRING \cup {""}
Path == Seq(Component)

\* The directory above; the root of the file system is its own parent.
Parent(dir) == IF dir = <<>> THEN <<>> ELSE Front(dir)

\* One component further.  An empty component and "." lead nowhere.
Enter(dir, name) ==
  IF name \in {"", "."} THEN dir ELSE IF name = ".." THEN Parent(dir) ELSE Append(dir, name)

\* What the operating system makes of a path, component by component.  (There
\* are no symbolic links.)
Real(path) ==
  LET kept[n \in 0 .. Len(path)] == IF n = 0 THEN <<>> ELSE Enter(kept[n - 1], path[n])
  IN kept[Len(path)]

\* No component of the path is a dot or two.
Named(path) == \A n \in 1 .. Len(path) : path[n] \notin {".", ".."}

Slash == <<"">>

\* The argument of a command: with a leading slash, or relative.
PathArgument == [abs : BOOLEAN, segs : Path]
Argument(abs, segs) == [abs |-> abs, segs |-> segs]
RootArg == Argument(TRUE, Slash)
UpArg   == Argument(FALSE, <<"..">>)

EndsWithSlash(path) == path # <<>> /\ Last(path) = ""

\* One slash at the end is ignored, unless it is the whole path.
Stripped(path) == IF EndsWithSlash(path) /\ path # Slash THEN Front(path) ELSE path

\* fs_path_join: no separator is added next to one.
Join(path, arg) ==
  IF ~arg.abs /\ EndsWithSlash(path) THEN Front(path) \o arg.segs ELSE path \o arg.segs

\* Mutant: a slash at the end counts as a component.
Backward_KeepsLast(path) == IF path = Slash THEN path ELSE Front(path)

\* fs_path_backward: of a path with one component nothing is left.
Backward(path) == IF path = Slash THEN path ELSE Front(Stripped(path))

\* fs_directory_allows: the root, without its last slash, is a prefix.  (The
\* names are such that none is the beginning of another.)
Allows(root, path) ==
  IF root = Slash THEN path # <<>> ELSE IsPrefix(Stripped(root), Stripped(path))

\* Mutant: the root is cut off with the slash it ends with.
Erase_WithSlash(root, path) ==
  LET shown == Stripped(path) \o <<"">>
  IN Argument(~EndsWithSlash(root), SubSeq(shown, Len(Stripped(root)) + 1, Len(shown)))

\* fs_path_erase: a slash is added at the end and the text of the root is cut
\* off at the front.  The root "/" is cut off with its slash.
Erase(root, path) ==
  LET shown == Stripped(path) \o <<"">>
  IN IF root # Slash THEN Argument(TRUE, SubSeq(shown, Len(Stripped(root)) + 1, Len(shown)))
     ELSE IF path = Slash THEN Argument(FALSE, <<>>)
     ELSE Argument(Head(shown) = "", SubSeq(shown, IF Head(shown) = "" THEN 2 ELSE 1, Len(shown)))

\* fs_get_directory
Directory(path) == Front(path)
=============================================================================
