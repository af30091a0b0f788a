------------------------------- MODULE Catalog -------------------------------
(***************************************************************************)
(* Projects, rubrics, tasks and videos as the access rules see them: who   *)
(* made them, which school they belong to, and who may then list, open and *)
(* change them.  Every module carries its own copy of the rules            *)
(* (ensureActorCan... in project, task and video), and the lists have      *)
(* theirs in SQL.                                                          *)
(*                                                                         *)
(* One project, one rubric and one task, each made once, and one video.    *)
(* The row of a video is stored without its school and creator (video      *)
(* Repository.Create omits the columns), so that the rules fall back on    *)
(* its task and project.                                                   *)
(***************************************************************************)
EXTENDS Naturals

CONSTANTS
  Actors,      \* [id, role, school, number]: users who send requests
  Schools,     \* schools of projects
  Nowhere,     \* "no school"
  Nobody       \* "no user", and "no number"

Leader == {"school_admin", "school_leader"}
Manager == {"admin", "teacher"} \cup Leader

ASSUME CatalogAssumption ==
  /\ \A a \in Actors : a.role \in Manager \cup {"scorer", "student"}
  /\ \A a, b \in Actors : a.id = b.id => a = b
  /\ \A a \in Actors : a.id # Nobody /\ a.school \in Schools \cup {Nowhere}
  /\ Nowhere \notin Schools

VARIABLES
  project,     \* the row of projects
  rubric,      \* the row of scoring_rubrics
  task,        \* the row of tasks
  videoRow     \* the row of videos

catalogVars == <<project, rubric, task, videoRow>>

UserId == {a.id : a \in Actors} \cup {Nobody}
SchoolId == Schools \cup {Nowhere}
StudentNumber == {a.number : a \in Actors} \cup {Nobody}

CatalogTypeOK ==
  /\ project \in [here : BOOLEAN, school : SchoolId, creator : UserId]
  /\ rubric \in [here : BOOLEAN, school : SchoolId, creator : UserId, public : BOOLEAN]
  /\ task \in [here : BOOLEAN, creator : UserId]
  /\ videoRow \in [status : {"none", "uploading", "ready"}, uploader : UserId,
                   student : UserId, number : StudentNumber]

CatalogInit ==
  /\ project = [here |-> FALSE, school |-> Nowhere, creator |-> Nobody]
  /\ rubric = [here |-> FALSE, school |-> Nowhere, creator |-> Nobody, public |-> FALSE]
  /\ task = [here |-> FALSE, creator |-> Nobody]
  /\ videoRow = [status |-> "none", uploader |-> Nobody, student |-> Nobody,
                 number |-> Nobody]
-----------------------------------------------------------------------------
(***************************************************************************)
(* The permissions of the roles, and those the routes ask for, before the  *)
(* rules of the services are asked.                                        *)
(***************************************************************************)

AllOf(resource) == {resource} \X {"create", "read", "update", "delete"}

SchoolPermissions ==
  AllOf("project") \cup AllOf("rubric") \cup (AllOf("video") \ {<<"video", "update">>})
    \cup {"task"} \X {"read", "update"}

\* defaultRoleSeeds, without the permissions that no route asks for.
Granted ==
  [admin         |-> SchoolPermissions \cup AllOf("user") \cup AllOf("video")
                       \cup {"task"} \X {"create", "submit"},
   school_admin  |-> SchoolPermissions \cup AllOf("user"),
   school_leader |-> SchoolPermissions \cup AllOf("user"),
   teacher       |-> SchoolPermissions \cup {<<"task", "create">>},
   scorer        |-> {"task"} \X {"read", "update", "submit"} \cup {<<"video", "read">>},
   student       |-> {<<"project", "read">>, <<"video", "read">>}]

\* registerRoutes, of the requests below; ListMine and GetMine ask for none.
Route ==
  [CreateProject |-> <<"project", "create">>, DeleteProject |-> <<"project", "delete">>,
   ListProjects  |-> <<"project", "read">>,   GetProject    |-> <<"project", "read">>,
   CreateRubric  |-> <<"rubric", "create">>,  DeleteRubric  |-> <<"rubric", "delete">>,
   UpdateRubric  |-> <<"rubric", "update">>,
   ListRubrics   |-> <<"rubric", "read">>,    GetRubric     |-> <<"rubric", "read">>,
   CreateTask    |-> <<"task", "create">>,
   CreateUpload  |-> <<"video", "create">>,   ConfirmUpload |-> <<"video", "create">>,
   ListVideos    |-> <<"video", "read">>,     GetVideo      |-> <<"video", "read">>,
   DeleteVideo   |-> <<"video", "delete">>]

\* RequirePermission
Passes(a, request) == Route[request] \in Granted[a.role]
-----------------------------------------------------------------------------
(***************************************************************************)
(* The rules.                                                              *)
(***************************************************************************)

SameSchool(a, school) == a.school # Nowhere /\ a.school = school

\* ensureActorCanManageProject of project, task and video; project's rule for opening.
CanManageProject(a) ==
  \/ a.role = "admin"
  \/ a.role \in Leader /\ SameSchool(a, project.school)
  \/ a.role = "teacher" /\ a.id = project.creator

\* ensureActorCanAccessProject of task and video: scorers read, too.
CanReadProject(a) ==
  \/ CanManageProject(a)
  \/ a.role = "scorer" /\ SameSchool(a, project.school)

\* Resolve: a task whose project or rubric is gone is not found.
TaskResolves == task.here /\ project.here /\ rubric.here

CanManageRubric(a) ==
  \/ a.role = "admin"
  \/ a.role \in Leader /\ SameSchool(a, rubric.school)
  \/ a.role = "teacher" /\ a.id = rubric.creator

CanOpenRubric(a) ==
  \/ rubric.public
  \/ CanManageRubric(a)
  \/ a.role = "teacher" /\ SameSchool(a, rubric.school)

\* videoSchoolID and videoCreatorID, for a row without a school and a creator: the
\* associations of a row that is gone are not loaded.
VideoSchool == IF task.here /\ project.here THEN project.school ELSE Nowhere

VideoCreator == IF task.here THEN task.creator ELSE Nobody

\* ensureActorCanManageVideo
CanManageVideo(a) ==
  \/ a.role = "admin"
  \/ a.role \in Leader /\ SameSchool(a, VideoSchool)
  \/ a.role = "teacher" /\ a.id = VideoCreator

\* ensureActorCanAccessVideo
CanAccessVideo(a) ==
  \/ CanManageVideo(a)
  \/ a.role = "scorer" /\ SameSchool(a, VideoSchool)
  \/ a.role = "student" /\ a.id = videoRow.student

\* GetMineByID, studentCanAccessVideo
CanOpenMine(a) ==
  /\ a.role = "student"
  /\ \/ a.id = videoRow.student
     \/ a.number # Nobody /\ a.number = videoRow.number /\ SameSchool(a, VideoSchool)
-----------------------------------------------------------------------------
(***************************************************************************)
(* The lists, without filters of the caller.                               *)
(***************************************************************************)

\* project Repository.List: a leader without a school is not restricted.
ListsProject(a) ==
  \/ a.role = "admin"
  \/ a.role \in Leader /\ a.school \in {Nowhere, project.school}
  \/ a.role = "teacher" /\ a.id = project.creator

\* ListRubrics
ListsRubric(a) ==
  \/ rubric.public \/ a.role = "admin"
  \/ a.role \in Leader \cup {"teacher"} /\ SameSchool(a, rubric.school)
  \/ a.role = "teacher" /\ a.id = rubric.creator

\* List of video: whoever reads the task.
ListsVideo(a) == TaskResolves /\ CanReadProject(a)

\* Mutated: the students of all schools with that number.
ListsMineAnywhere(a) ==
  /\ a.role = "student"
  /\ \/ a.id = videoRow.student
     \/ a.number # Nobody /\ a.number = videoRow.number

\* ListMine: by identity or number, within the school of the student.
ListsMine(a) ==
  /\ a.role = "student"
  /\ \/ a.id = videoRow.student
     \/ a.number # Nobody /\ a.number = videoRow.number
  /\ \/ a.school = Nowhere
     \/ task.here /\ project.here /\ project.school = a.school
-----------------------------------------------------------------------------
(***************************************************************************)
(* The requests.                                                           *)
(***************************************************************************)

\* Create: a manager makes projects of the own school, an admin of any.
CreateProject(a, school) ==
  /\ Passes(a, "CreateProject")
  /\ ~project.here /\ project.creator = Nobody
  /\ a.role \in Manager
  /\ a.role # "admin" => SameSchool(a, school)
  /\ project' = [here |-> TRUE, school |-> school, creator |-> a.id]
  /\ UNCHANGED <<rubric, task, videoRow>>

\* Nothing is asked of the tasks of the project.
DeleteProject(a) ==
  /\ Passes(a, "DeleteProject")
  /\ project.here /\ CanManageProject(a)
  /\ project' = [project EXCEPT !.here = FALSE]
  /\ UNCHANGED <<rubric, task, videoRow>>

\* CreateRubric, CreateRubricFromTemplate: an admin's rubric belongs to no school.
CreateRubric(a, public) ==
  /\ Passes(a, "CreateRubric")
  /\ ~rubric.here /\ rubric.creator = Nobody
  /\ a.role \in Manager
  /\ a.role # "admin" => a.school # Nowhere
  /\ rubric' = [here |-> TRUE, creator |-> a.id, public |-> public,
                school |-> IF a.role = "admin" THEN Nowhere ELSE a.school]
  /\ UNCHANGED <<project, task, videoRow>>

UpdateRubric(a) ==
  /\ Passes(a, "UpdateRubric")
  /\ rubric.here /\ CanManageRubric(a)
  /\ rubric' = [rubric EXCEPT !.public = ~rubric.public]
  /\ UNCHANGED <<project, task, videoRow>>

DeleteRubric(a) ==
  /\ Passes(a, "DeleteRubric")
  /\ rubric.here /\ CanManageRubric(a)
  /\ rubric' = [rubric EXCEPT !.here = FALSE]
  /\ UNCHANGED <<project, task, videoRow>>

\* Create of task
CreateTask(a) ==
  /\ Passes(a, "CreateTask")
  /\ ~task.here
  /\ project.here /\ rubric.here
  /\ a.role \in Manager /\ CanManageProject(a)
  /\ task' = [here |-> TRUE, creator |-> a.id]
  /\ UNCHANGED <<project, rubric, videoRow>>

\* CreateUploadCredential, for a student with an account or known by number only.
CreateUpload(a, student, number) ==
  /\ Passes(a, "CreateUpload")
  /\ videoRow.status = "none"
  /\ a.role \in Manager /\ TaskResolves /\ CanManageProject(a)
  /\ videoRow' = [status |-> "uploading", uploader |-> a.id, student |-> student,
                  number |-> number]
  /\ UNCHANGED <<project, rubric, task>>

ConfirmByManager(a) ==
  /\ Passes(a, "ConfirmUpload")
  /\ videoRow.status = "uploading" /\ CanManageVideo(a)
  /\ videoRow' = [videoRow EXCEPT !.status = "ready"]
  /\ UNCHANGED <<project, rubric, task>>

RemoveVideo(a) ==
  /\ Passes(a, "DeleteVideo")
  /\ videoRow.status # "none" /\ CanManageVideo(a)
  /\ videoRow' = [status |-> "none", uploader |-> Nobody, student |-> Nobody,
                  number |-> Nobody]
  /\ UNCHANGED <<project, rubric, task>>

CatalogNext ==
  \E a \in Actors :
    \/ \E school \in Schools : CreateProject(a, school)
    \/ \E public \in BOOLEAN : CreateRubric(a, public)
    \/ DeleteProject(a) \/ UpdateRubric(a) \/ DeleteRubric(a) \/ CreateTask(a)
    \/ \E student \in UserId, number \in StudentNumber \ {Nobody} :
         CreateUpload(a, student, number)
    \/ ConfirmByManager(a) \/ RemoveVideo(a)

CatalogSpec == CatalogInit /\ [][CatalogNext]_catalogVars
-----------------------------------------------------------------------------
(***************************************************************************)
(* Properties.                                                             *)
(***************************************************************************)

HasVideo == videoRow.status # "none"

\* A teacher whose project got its task from somebody else.
LeftOut(a) == a.role = "teacher" /\ task.here /\ a.id # task.creator

\* The copies of the rules fit together.  Whoever finds something in one of the four
\* lists can open it, and whoever was given an upload can confirm it, and delete it, while
\* its project is there, although lists, routes and requests decide by different code.
\* Exempt are the two cases in which the code does not keep this: users without a
\* school, in the lists, and teachers whose task was made by somebody else.
RightsFitTogether ==
  \A a \in Actors :
    /\ a.school # Nowhere =>
         /\ project.here /\ Passes(a, "ListProjects") /\ ListsProject(a) =>
              Passes(a, "GetProject") /\ CanManageProject(a)
         /\ rubric.here /\ Passes(a, "ListRubrics") /\ ListsRubric(a) =>
              Passes(a, "GetRubric") /\ CanOpenRubric(a)
         /\ HasVideo /\ Passes(a, "ListVideos") /\ ListsVideo(a) =>
              (Passes(a, "GetVideo") /\ CanAccessVideo(a)) \/ LeftOut(a)
         /\ HasVideo /\ ListsMine(a) => CanOpenMine(a)
    /\ videoRow.status = "uploading" /\ project.here /\ a.id = videoRow.uploader =>
         \/ Passes(a, "ConfirmUpload") /\ Passes(a, "DeleteVideo") /\ CanManageVideo(a)
         \/ LeftOut(a)
=============================================================================
