----------------------------- MODULE NextRoutes -----------------------------
(***************************************************************************)
(* The path at which Next.js serves a route module, told from the place of *)
(* its file (parser/nextRouteGraph.ts).  A file is known by the sequence   *)
(* of the directories it is in; all are called RouteFile.                  *)
(***************************************************************************)
EXTENDS RouteAudits, SequencesExt

CONSTANTS
    AppDir, SrcDir, RouteFile,
    Groups,      \* directories (name)
    CatchAll,    \* directories [...name] and [[...name]]
    Star,
    Dynamic      \* directories [name] -> the segment :name

ASSUME AppAssumption == SrcDir # AppDir

HTTP_EXPORT == {"GET", "HEAD", "POST", "PUT", "PATCH", "DELETE"}

mapSegmentToUrl(seg) ==
    IF seg \in Groups THEN << >>
    ELSE <<IF seg \in CatchAll THEN Star ELSE IF seg \in DOMAIN Dynamic THEN Dynamic[seg] ELSE seg>>

segmentsToFullPath(segments) ==
    FlattenSeq([i \in DOMAIN segments |-> mapSegmentToUrl(segments[i])])

Beneath(dirs, n) == SubSeq(dirs, n + 1, Len(dirs))

\* What is below the app directory of the project: the file is not in the
\* app directory itself.
InProject(rel) ==
    LET n == IF IsPrefix(<<AppDir>>, rel) THEN 1 ELSE IF IsPrefix(<<SrcDir, AppDir>>, rel) THEN 2 ELSE 0
    IN IF n = 0 \/ Len(rel) = n THEN << >> ELSE Beneath(rel, n)

\* What is below the first app directory of the whole path; what is cut off
\* its end is the name of the file and the slash before it.
Inferred(dirs) ==
    LET rest == Beneath(dirs, Min({i \in DOMAIN dirs : dirs[i] = AppDir}))
    IN IF rest = << >> THEN <<RouteFile>> ELSE rest

IsRouteModule(root, dirs) == IsPrefix(root, dirs) /\ Contains(dirs, AppDir)

\* always from the first app directory
MutNextAppRouteFileToUrlPath(root, dirs) == segmentsToFullPath(Inferred(dirs))
nextAppRouteFileToUrlPath(root, dirs) ==
    LET afterApp == InProject(Beneath(dirs, Len(root)))
    IN segmentsToFullPath(IF afterApp # << >> THEN afterApp ELSE Inferred(dirs))
=============================================================================
