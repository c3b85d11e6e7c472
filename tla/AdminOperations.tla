-------------------------- MODULE AdminOperations --------------------------
(* What the organiser's pages can ask of the server, and what they have    *)
(* read again afterwards (frontend/src/services, components, pages).  Data *)
(* is cut into aspects: a request changes aspects, a cache (an SWR key)    *)
(* shows aspects, and a cache that shows one an own request has changed is *)
(* out of date until it is read again.                                     *)
EXTENDS Sequences

(* Caches: the aspects the pages show of an answer. Which teams there are  *)
(* is the roster; a team, court or ranking that is created or deleted is   *)
(* used by no stage item.                                                  *)
getClubs == {"clubs"}
getTournaments == {"tournament"}
getTournamentById == {"tournament"}
getCourts == {"courts"}
getPlayersPaginated == {"players", "player names", "members", "teams"}
getTeamsPaginated == {"roster", "teams", "members", "players", "player names"}
getTeams == {"roster", "teams", "members", "players", "player names"}
getStages == {"stages", "stage names", "items", "inputs", "matches", "referees", "teams"}
getRankings == {"rankings"}
getAvailableStageItemInputs == {"roster", "teams", "stages", "items", "inputs"}
\* The options of a team's members: everyone, or who is in no team yet.
getPlayers(not_in_team) ==
  {"players", "player names"} \cup (IF not_in_team THEN {"members"} ELSE {})
getTournamentIssues == {"matches", "players", "members", "inputs", "roster", "limits"}

Shows ==
  [clubs |-> getClubs, tournaments |-> getTournaments, tournament |-> getTournamentById,
   courts |-> getCourts, playersPage |-> getPlayersPaginated,
   teamsPage |-> getTeamsPaginated, teams |-> getTeams, stages |-> getStages,
   rankings |-> getRankings, inputs |-> getAvailableStageItemInputs,
   freePlayers |-> getPlayers(TRUE), anyPlayers |-> getPlayers(FALSE),
   issues |-> getTournamentIssues]
Caches == DOMAIN Shows

(* Requests: what one may change, what it has changed already when it is   *)
(* refused half-way, whether the issues are read again after it, and       *)
(* whether its errors are caught (performMutation).                        *)
Request(changes, issues) ==
  [changes |-> changes, halfway |-> {}, issues |-> issues, catches |-> TRUE]
Uncaught(request, halfway) == [request EXCEPT !.catches = FALSE, !.halfway = halfway]

Reconciled == {"inputs", "matches", "items"}

createClub == Request({"clubs"}, FALSE)
updateClub == Request({"clubs"}, FALSE)
deleteClub == Request({"clubs"}, FALSE)
createTournament == Request({"tournament"}, FALSE)
updateTournament == Request({"tournament", "limits", "matches"}, TRUE)
archiveTournament == Request({"tournament"}, FALSE)
unarchiveTournament == Request({"tournament"}, FALSE)
uploadTournamentLogo == Uncaught(Request({"tournament"}, FALSE), {})
removeTournamentLogo == Uncaught(Request({"tournament"}, FALSE), {})
createCourt == Request({"courts"}, FALSE)
deleteCourt == Request({"courts"}, FALSE)
createPlayer == Request({"players"}, TRUE)
createMultiplePlayers == Request({"players"}, TRUE)
updatePlayer == Request({"player names"}, FALSE)
deletePlayer == Request({"players", "members"}, TRUE)
createTeam == Uncaught(Request({"roster", "members"}, TRUE), {"roster"})
createTeams == Uncaught(Request({"roster", "members", "players"}, TRUE), {})
updateTeam ==
  Uncaught(Request({"teams", "members", "referees"} \cup Reconciled, TRUE), {"teams"})
\* Mutant: the badges are not read again.
deleteTeamQuietly == Request({"roster", "members"}, FALSE)
deleteTeam == Request({"roster", "members"}, TRUE)
uploadTeamLogo == Uncaught(Request({"teams"}, FALSE), {})
removeTeamLogo == Uncaught(Request({"teams"}, FALSE), {})
createRanking == Request({"rankings"}, FALSE)
editRanking == Uncaught(Request({"rankings"} \cup Reconciled, TRUE), {})
deleteRanking == Request({"rankings"}, FALSE)
createStage == Request({"stages"}, FALSE)
updateStage == Request({"stage names"}, FALSE)
deleteStage == Request({"stages"} \cup Reconciled, TRUE)
setRankingForStageItems == Request(Reconciled, TRUE)
createStagesFromTemplate == Uncaught(Request({"stages"} \cup Reconciled, TRUE), {})
createStageItem == Request(Reconciled, TRUE)
updateStageItem == Request(Reconciled, TRUE)
deleteStageItem == Request(Reconciled, TRUE)
updateStageItemInput == Request(Reconciled, TRUE)
deleteRound == Request(Reconciled, TRUE)
updateRound == Request({"items"}, FALSE)
updateMatch == Request({"matches", "referees"}, TRUE)
matchVerbs == Request(Reconciled, TRUE)
autoAssignReferees == Request({"referees"}, FALSE)
scheduleMatches == Request({"matches"}, TRUE)
reoptimizeMatches == Request({"matches"}, TRUE)

(* Dialogs and buttons: the request and the reads that follow it, one      *)
(* after the other; the caches of one step are read at the same time.      *)
Dialog(name, request, reads) == [name |-> name, request |-> request, reads |-> reads]

ClubModalCreate == Dialog("create club", createClub, <<{"clubs"}>>)
ClubModalUpdate == Dialog("update club", updateClub, <<{"clubs"}>>)
ClubDelete == Dialog("delete club", deleteClub, <<{"clubs"}>>)
TournamentModal == Dialog("create tournament", createTournament, <<{"tournaments"}>>)
GeneralTournamentForm == Dialog("tournament form", updateTournament, <<{"tournament"}>>)
ArchiveTournamentButton == Dialog("archive", archiveTournament, <<{"tournament"}>>)
UnarchiveTournamentButton == Dialog("unarchive", unarchiveTournament, <<{"tournament"}>>)
TournamentLogoDropzone == Dialog("tournament logo", uploadTournamentLogo, <<{"tournament"}>>)
RemoveTournamentLogo ==
  Dialog("no tournament logo", removeTournamentLogo, <<{"tournament"}>>)
CourtModal == Dialog("create court", createCourt, <<{"courts"}>>)
CourtDeleteModal == Dialog("delete court", deleteCourt, <<{"courts"}>>)
SinglePlayerTab == Dialog("create player", createPlayer, <<{"playersPage"}>>)
MultiPlayerTab == Dialog("create players", createMultiplePlayers, <<{"playersPage"}>>)
PlayerUpdateModal == Dialog("update player", updatePlayer, <<{"playersPage"}>>)
PlayerDelete == Dialog("delete player", deletePlayer, <<{"playersPage"}>>)
SingleTeamTab ==
  Dialog("create team", createTeam, <<{"teamsPage"}, {"freePlayers"}>>)
MultiTeamTab == Dialog("create teams", createTeams, <<{"teamsPage"}>>)
TeamUpdateModal ==
  Dialog("update team", updateTeam, <<{"teamsPage"}, {"freePlayers"}>>)
TeamDelete == Dialog("delete team", deleteTeam, <<{"teamsPage"}, {"freePlayers"}>>)
DropzoneButton == Dialog("team logo", uploadTeamLogo, <<{"teamsPage"}>>)
RemoveTeamLogo == Dialog("no team logo", removeTeamLogo, <<{"teamsPage"}>>)
AddRanking == Dialog("create ranking", createRanking, <<{"rankings"}>>)
EditRankingForm == Dialog("edit ranking", editRanking, <<{"rankings"}>>)
RankingDeleteButton == Dialog("delete ranking", deleteRanking, <<{"rankings"}>>)
CreateStageButton == Dialog("create stage", createStage, <<{"stages"}, {"inputs"}>>)
CreateStageButtonLarge == Dialog("create first stage", createStage, <<{"stages"}>>)
UpdateStageModal == Dialog("update stage", updateStage, <<{"stages"}>>)
StageDelete == Dialog("delete stage", deleteStage, <<{"stages"}, {"inputs"}>>)
SetStageRankingModal ==
  Dialog("set ranking", setRankingForStageItems, <<{"stages"}>>)
CreateFromTemplateModal ==
  Dialog("template", createStagesFromTemplate, <<{"stages"}, {"inputs"}>>)
CreateStageItemModal ==
  Dialog("create item", createStageItem, <<{"stages"}, {"inputs"}>>)
UpdateStageItemModal == Dialog("update item", updateStageItem, <<{"stages"}>>)
StageItemDelete == Dialog("delete item", deleteStageItem, <<{"stages"}, {"inputs"}>>)
StageItemInputComboBox == Dialog("input", updateStageItemInput, <<{"inputs", "stages"}>>)
AutoAssign == Dialog("auto-assign", updateStageItemInput, <<{"stages"}, {"inputs"}>>)
RoundDeleteButton == Dialog("delete round", deleteRound, <<{"stages"}>>)
RoundModal == Dialog("update round", updateRound, <<{"stages"}>>)
MatchModalSave == Dialog("save match", updateMatch, <<{"stages"}>>)
MatchModalTransition == Dialog("match verb", matchVerbs, <<{"stages"}>>)
AssignReferees == Dialog("referees", autoAssignReferees, <<{"stages"}>>)
ScheduleModal == Dialog("schedule", scheduleMatches, <<{"stages"}>>)
ReoptimizeModal == Dialog("reoptimize", reoptimizeMatches, <<{"stages"}>>)

(* Pages: the caches they show and the dialogs they offer.                 *)
Page(caches, offers) == [caches |-> caches, offers |-> offers]
\* A page of a tournament, with the navigation bar and its badges.
TournamentPage(caches, offers) == Page(caches \cup {"tournament", "issues"}, offers)

HomePage == Page({"tournaments", "clubs"}, {TournamentModal})
ClubsPage == Page({"clubs"}, {ClubModalCreate, ClubModalUpdate, ClubDelete})
SettingsPage ==
  TournamentPage({"clubs", "courts"},
    {GeneralTournamentForm, ArchiveTournamentButton, UnarchiveTournamentButton,
     TournamentLogoDropzone, RemoveTournamentLogo})
PlayersPage ==
  TournamentPage({"playersPage"},
    {SinglePlayerTab, MultiPlayerTab, PlayerUpdateModal, PlayerDelete})
TeamsPage ==
  TournamentPage({"teamsPage", "stages", "freePlayers", "anyPlayers"},
    {SingleTeamTab, MultiTeamTab, TeamUpdateModal, TeamDelete, DropzoneButton,
     RemoveTeamLogo})
RankingsPage ==
  TournamentPage({"rankings", "stages"},
    {AddRanking, EditRankingForm, RankingDeleteButton})
StagesPage ==
  TournamentPage({"stages", "teams", "rankings", "inputs"},
    {CreateStageButton, CreateStageButtonLarge, UpdateStageModal, StageDelete,
     SetStageRankingModal, CreateFromTemplateModal, CreateStageItemModal,
     UpdateStageItemModal, StageItemDelete, StageItemInputComboBox, AutoAssign})
SwissTournamentPage ==
  TournamentPage({"stages", "courts"},
    {RoundDeleteButton, RoundModal, MatchModalSave, MatchModalTransition})
ResultsPage ==
  TournamentPage({"stages", "courts", "teams"}, {MatchModalSave, MatchModalTransition})
SchedulePage ==
  TournamentPage({"stages", "courts"},
    {CourtModal, CourtDeleteModal, AssignReferees, ScheduleModal, ReoptimizeModal,
     MatchModalSave, MatchModalTransition})

Site ==
  [home |-> HomePage, clubs |-> ClubsPage, settings |-> SettingsPage, players |-> PlayersPage,
   teams |-> TeamsPage, rankings |-> RankingsPage, stages |-> StagesPage,
   swiss |-> SwissTournamentPage, results |-> ResultsPage, schedule |-> SchedulePage]
=============================================================================
