SPECIFICATION Spec
CONSTANTS
    None = None
    Entries <- MCEntries
    FilesOf <- MCFilesOf
    Queries <- MCQueries
    Repos <- AllRepos
    DirOf <- MCDirOf
    ShowRootItem = TRUE
INVARIANTS
    ActsOnTheMarked
    PromptsForTheMarked
    TreeShowsTheFiles
PROPERTIES
    StepsToTheNextRow
    OpensAtTheEntry
