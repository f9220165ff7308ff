SPECIFICATION PagesSpec
CONSTANTS
    Agents = {a1, a2}
    Scoped = a1
    Projects = {p1}
    NoProject = NoProject
    Viewers = {v1}
    MaxRuns = 3
    Slots = {"runtime", "framework"}
    Runtime = "runtime"
    Options = {"go", "node", "stdlib", "express"}
    Presets = {"service", "web"}
    ProjectOf <- Scope
    Catalogue <- Shelf
    Preset <- Bundles
    Releases <- Editions
    NoOption = ""
    Forms <- SomeForms
    Requests = {r1, r2}
SYMMETRY Symmetric
INVARIANTS
    ComparisonIsStable
    ComparesWithReportBelow
    TilesLeadToReports
    PromptAgreesWithPanel
    LabelIsTrue
    LastPanelIsCurrent
